---- MODULE Spec2Model ----
(***************************************************************************)
(* The subtitle engine of SonioxSRT (ts/src/subtitles.ts): tokens are      *)
(* assembled into words, words into candidate segments, segments are       *)
(* split and merged for readability, rendered into cues and written as     *)
(* SRT.  Texts are sequences of characters; a character is a one-element   *)
(* string, and a character outside ASCII is written by its code point      *)
(* ("U+3002" is the ideographic full stop).                                *)
(***************************************************************************)
EXTENDS Integers, Sequences, FiniteSets, TLC

VARIABLES
    pc,               \* position inside srt(): which call comes next
    transcript,       \* the caller's transcript value
    config,           \* the SubtitleConfig of the run
    tokens,           \* the caller's token objects (extractTokens' result)
    words,            \* tokensToWords' result
    segments,         \* buildSegments' result (the candidate segments)
    pending,          \* enforceReadability: candidate segments not yet taken by the for loop
    queue,            \* enforceReadability: the work queue of the segment being split
    out,              \* enforceReadability: the list the split phase emits to
    currentSegments,  \* enforceReadability: the list the merge loop works on
    changed,          \* enforceReadability: the merge loop's flag
    entries,          \* renderSegments' result
    file,             \* the output file: NoFile, or what writeSrtFile wrote
    error,            \* the message of the Error srt() threw, "" while none
    inputMs,          \* formatTimestamp alone: its argument
    stamp,            \* formatTimestamp alone: its result, <<>> before the call
    tpc,              \* position inside transcribeAudio(): which step comes next
    options,          \* transcribeAudio: the caller's options and what they meet
    ownsClient,       \* transcribeAudio: the client was made by the call
    fileId,           \* transcribeAudio: the id uploadFile answered
    transcriptionId,  \* transcribeAudio: the id createTranscription answered
    calls,            \* the calls made on the client so far, in order
    thrown,           \* the error on its way out of the try block, "" while none
    promise,          \* transcribeAudio's promise: pending, resolved or rejected
    readyState,       \* runRealtimeSession: the state of the WebSocket ws
    sent,             \* runRealtimeSession: what was sent on the socket, in order
    responses,        \* runRealtimeSession: the payloads received, in order
    finalTokens,      \* runRealtimeSession: the final tokens collected
    stream,           \* streamAudio: where the task is
    chunksLeft,       \* streamAudio: the chunks of the file not yet read
    chunkSleepMs,     \* runRealtimeSession: the option chunkSleepMs
    session           \* runRealtimeSession's promise and what settled it

srtVars == <<pc, transcript, config, tokens, words, segments, pending, queue, out,
             currentSegments, changed, entries, file, error>>

timestampVars == <<inputMs, stamp>>

transcriberVars ==
    <<tpc, options, ownsClient, fileId, transcriptionId, calls, thrown, promise>>

realtimeVars ==
    <<readyState, sent, responses, finalTokens, stream, chunksLeft, chunkSleepMs, session>>

\* what a step of srt() leaves alone
otherThanSrt == <<timestampVars, transcriberVars, realtimeVars>>

vars == <<srtVars, timestampVars, transcriberVars, realtimeVars>>

-----------------------------------------------------------------------------
(* JavaScript values *)

\* undefined, for a number-valued field (times are never negative)
Undefined == 0 - 1
\* undefined and null, for a string-valued field
NoSpeaker == "undefined"
Null == "null"
\* the output file before any write
NoFile == <<"no file">>

Min(S) == CHOOSE x \in S : \A y \in S : x <= y
Max(S) == CHOOSE x \in S : \A y \in S : x >= y
Abs(x) == IF x < 0 THEN 0 - x ELSE x

\* a ?? b on number-valued fields
Coalesce(a, b) == IF a = Undefined THEN b ELSE a

-----------------------------------------------------------------------------
(* Characters and strings *)

\* what String.prototype.trim takes for white space (space, tab, line feed)
Whitespace == {" ", "U+0009", "U+000A"}

SENTENCE_ENDERS == {"U+3002", "U+FF61", ".", "U+FF0E", "U+FF01", "!", "U+FF1F", "?"}

MINOR_BREAKERS == {",", "U+FF0C", ";", "U+FF1B", ":", "U+FF1A", "U+3001", "U+2014",
                   "U+2013", "-", "U+FF65"}

PUNCT == {".", ",", "!", "?", ";", ":", "U+2013", "U+2014", "-", "U+2026", "U+FF0C",
          "U+FF1B", "U+FF1A", "U+FF61", "U+FF0E", "U+FF65"}

\* the characters of the model that lie in the ranges containsCjk tests
CjkChars == {"U+4E2D", "U+6587", "U+3042"}

Ellipsis == "U+2026"

containsCjk(text) == \E i \in 1..Len(text) : text[i] \in CjkChars

TrimStart(s) ==
    LET keep == {i \in 1..Len(s) : s[i] \notin Whitespace}
    IN  IF keep = {} THEN <<>> ELSE SubSeq(s, Min(keep), Len(s))

TrimEnd(s) ==
    LET keep == {i \in 1..Len(s) : s[i] \notin Whitespace}
    IN  IF keep = {} THEN <<>> ELSE SubSeq(s, 1, Max(keep))

Trim(s) == TrimEnd(TrimStart(s))

StartsWithSpace(s) == Len(s) > 0 /\ s[1] = " "
EndsWithSpace(s) == Len(s) > 0 /\ s[Len(s)] = " "

\* s.slice(-1): the last character as a string, "" for the empty string
LastChar(s) == IF Len(s) = 0 THEN "" ELSE s[Len(s)]

\* s.slice(a, b) for 0 <= a
Slice(s, a, b) == SubSeq(s, a + 1, IF b > Len(s) THEN Len(s) ELSE b)

RECURSIVE JoinTexts(_)
\* items.map(x => x.text ?? "").join("")
JoinTexts(items) ==
    IF items = <<>> THEN <<>> ELSE Head(items).text \o JoinTexts(Tail(items))

RECURSIVE SumLen(_)
\* tokens.reduce((sum, token) => sum + (token.text ?? "").length, 0)
SumLen(items) ==
    IF items = <<>> THEN 0 ELSE Len(Head(items).text) + SumLen(Tail(items))

\* isSentenceBreak that recognises no mark
isSentenceBreakNever(text) == FALSE

isSentenceBreak(text) == Len(text) = 1 /\ text[1] \in SENTENCE_ENDERS

concatText(items) == Trim(JoinTexts(items))

endsWithSentenceBreak(text) ==
    LET stripped == Trim(text)
    IN  Len(stripped) > 0 /\ stripped[Len(stripped)] \in SENTENCE_ENDERS

\* text.replace(/\s+/g, "").length
charsForCps(text) == Cardinality({i \in 1..Len(text) : text[i] \notin Whitespace})

-----------------------------------------------------------------------------
(* tokensToWords *)

\* the accumulator of the scan: words, currentTokens, currentText (joined),
\* currentStart, currentEnd
WordsStart ==
    [words |-> <<>>, currentTokens |-> <<>>, currentText |-> <<>>,
     currentStart |-> Undefined, currentEnd |-> Undefined]

\* flush as it would be without the leading-space marker
flushWithoutPrefix(st) ==
    IF st.currentTokens = <<>> THEN st
    ELSE LET word == [text |-> st.currentText,
                      start_ms |-> Coalesce(st.currentStart, 0),
                      end_ms |-> Coalesce(st.currentEnd, Coalesce(st.currentStart, 0)),
                      speaker |-> NoSpeaker,
                      inner |-> st.currentTokens,
                      prefix_space |-> st.currentTokens[1].prefix_space]
         IN  [words |-> Append(st.words, word), currentTokens |-> <<>>,
              currentText |-> <<>>, currentStart |-> Undefined,
              currentEnd |-> Undefined]

flush(st) ==
    IF st.currentTokens = <<>> THEN st
    ELSE LET prefixSpace == st.currentTokens[1].prefix_space
             text == (IF prefixSpace THEN <<" ">> ELSE <<>>) \o st.currentText
             word == [text |-> text,
                      start_ms |-> Coalesce(st.currentStart, 0),
                      end_ms |-> Coalesce(st.currentEnd, Coalesce(st.currentStart, 0)),
                      speaker |-> NoSpeaker,
                      inner |-> st.currentTokens,
                      prefix_space |-> prefixSpace]
         IN  [words |-> Append(st.words, word), currentTokens |-> <<>>,
              currentText |-> <<>>, currentStart |-> Undefined,
              currentEnd |-> Undefined]

addToCurrent(st, token, textPart, prefixSpace) ==
    LET marked == IF prefixSpace THEN [token EXCEPT !.prefix_space = TRUE] ELSE token
    IN  [st EXCEPT
            !.currentTokens = Append(@, marked),
            !.currentText = @ \o textPart,
            !.currentStart = IF token.start_ms = Undefined THEN @
                             ELSE IF @ = Undefined THEN token.start_ms
                             ELSE Min({@, token.start_ms}),
            !.currentEnd = IF token.end_ms = Undefined THEN @
                           ELSE IF @ = Undefined THEN token.end_ms
                           ELSE Max({@, token.end_ms})]

\* one iteration of the for loop over the tokens
WordsStep(st, token) ==
    LET rawText == token.text
        startsSpace == rawText[1] \in Whitespace
        clean == TrimStart(rawText)
        isPunct == Len(clean) > 0 /\ \A i \in 1..Len(clean) : clean[i] \in PUNCT
        added ==
            IF startsSpace THEN addToCurrent(flush(st), token, clean, TRUE)
            ELSE IF st.currentTokens # <<>>
                 THEN IF isPunct THEN addToCurrent(st, token, clean, FALSE)
                      ELSE IF containsCjk(clean) /\ containsCjk(st.currentText)
                           THEN addToCurrent(flush(st), token, clean, FALSE)
                           ELSE addToCurrent(st, token, clean, FALSE)
                 ELSE addToCurrent(st, token, clean, FALSE)
    IN  IF rawText = <<>> THEN st
        ELSE IF Len(clean) > 0
                /\ (\/ LastChar(clean) \in SENTENCE_ENDERS
                    \/ LastChar(clean) \in MINOR_BREAKERS
                    \/ (containsCjk(clean) /\ Len(clean) = 1))
             THEN flush(added)
             ELSE added

RECURSIVE WordsScan(_, _)
WordsScan(st, toks) ==
    IF toks = <<>> THEN st ELSE WordsScan(WordsStep(st, Head(toks)), Tail(toks))

tokensToWords(toks) ==
    LET ws == flush(WordsScan(WordsStart, toks)).words
    IN  IF Len(ws) > 0 /\ StartsWithSpace(ws[1].text)
        THEN [ws EXCEPT ![1].text = TrimStart(@)]
        ELSE ws

\* the caller's token objects after the call: addToCurrent sets _prefix_space
\* on the token object itself
tokensAfterWords(toks) ==
    [i \in 1..Len(toks) |->
        IF toks[i].text # <<>> /\ toks[i].text[1] \in Whitespace
        THEN [toks[i] EXCEPT !.prefix_space = TRUE]
        ELSE toks[i]]

-----------------------------------------------------------------------------
(* buildSegments *)

safeBoundary(prevText, nextText) ==
    \/ nextText = <<>>
    \/ StartsWithSpace(nextText)
    \/ LastChar(prevText) = " "
    \/ LastChar(prevText) \in SENTENCE_ENDERS
    \/ LastChar(prevText) \in MINOR_BREAKERS

\* the first value that is neither undefined nor null nor ""
firstNonEmpty(values) ==
    LET good == {i \in 1..Len(values) : values[i] \notin {NoSpeaker, Null, ""}}
    IN  IF good = {} THEN NoSpeaker ELSE values[Min(good)]

\* the accumulator of the scan: segments, current, currentStart, lastTokenEnd,
\* currentSpeaker
BuildStart ==
    [segments |-> <<>>, current |-> <<>>, currentStart |-> Undefined,
     lastTokenEnd |-> Undefined, currentSpeaker |-> NoSpeaker]

\* closeSegment without the test that drops a segment whose text is empty
closeSegmentKeepingEmpty(st, sentenceBreak) ==
    LET reset == [st EXCEPT !.current = <<>>, !.currentStart = Undefined,
                            !.lastTokenEnd = Undefined, !.currentSpeaker = NoSpeaker]
        start == Coalesce(st.currentStart, 0)
        endCandidates ==
            {Coalesce(st.current[i].end_ms, Coalesce(st.current[i].start_ms, start)) :
                i \in 1..Len(st.current)}
        speaker == firstNonEmpty([i \in 1..Len(st.current) |-> st.current[i].speaker])
        seg == [start |-> start,
                end |-> Max(endCandidates),
                speaker |-> IF speaker = NoSpeaker THEN Null ELSE speaker,
                tokens |-> st.current,
                sentence_break |-> sentenceBreak,
                prefix_ellipsis |-> FALSE,
                suffix_ellipsis |-> FALSE]
    IN  IF st.current = <<>> THEN st
        ELSE [reset EXCEPT !.segments = Append(@, seg)]

closeSegment(st, sentenceBreak) ==
    LET reset == [st EXCEPT !.current = <<>>, !.currentStart = Undefined,
                            !.lastTokenEnd = Undefined, !.currentSpeaker = NoSpeaker]
        start == Coalesce(st.currentStart, 0)
        endCandidates ==
            {Coalesce(st.current[i].end_ms, Coalesce(st.current[i].start_ms, start)) :
                i \in 1..Len(st.current)}
        speaker == firstNonEmpty([i \in 1..Len(st.current) |-> st.current[i].speaker])
        seg == [start |-> start,
                end |-> Max(endCandidates),
                speaker |-> IF speaker = NoSpeaker THEN Null ELSE speaker,
                tokens |-> st.current,
                sentence_break |-> sentenceBreak,
                prefix_ellipsis |-> FALSE,
                suffix_ellipsis |-> FALSE]
    IN  IF st.current = <<>> THEN st
        ELSE IF concatText(st.current) = <<>> THEN reset
        ELSE [reset EXCEPT !.segments = Append(@, seg)]

\* one iteration of the for loop over the words
BuildStep(st, token, gapThreshold, splitOnSpeaker, segmentOnSentence) ==
    LET start == token.start_ms
        end == token.end_ms
        text == token.text
        speaker == token.speaker
        st1 == IF /\ splitOnSpeaker
                  /\ st.current # <<>>
                  /\ speaker # NoSpeaker
                  /\ st.currentSpeaker # NoSpeaker
                  /\ speaker # st.currentSpeaker
               THEN closeSegment(st, FALSE) ELSE st
        st2 == IF /\ st1.current # <<>>
                  /\ st1.lastTokenEnd # Undefined
                  /\ start # Undefined
                  /\ gapThreshold > 0
                  /\ start - st1.lastTokenEnd > gapThreshold
                  /\ safeBoundary(st1.current[Len(st1.current)].text, text)
               THEN closeSegment(st1, FALSE) ELSE st1
        st3 == [st2 EXCEPT
                   !.currentStart = IF st2.current = <<>> /\ start # Undefined
                                    THEN start ELSE @,
                   !.current = Append(@, token),
                   !.lastTokenEnd = IF end # Undefined THEN end ELSE @,
                   !.currentSpeaker = IF @ = NoSpeaker /\ speaker # NoSpeaker
                                      THEN speaker ELSE @]
        trimmed == Trim(text)
        sentenceBreak ==
            /\ trimmed # <<>>
            /\ \/ isSentenceBreak(trimmed)
               \/ segmentOnSentence /\ endsWithSentenceBreak(trimmed)
    IN  IF sentenceBreak THEN closeSegment(st3, TRUE) ELSE st3

RECURSIVE BuildScan(_, _, _, _, _)
BuildScan(st, ws, gapThreshold, splitOnSpeaker, segmentOnSentence) ==
    IF ws = <<>> THEN st
    ELSE BuildScan(BuildStep(st, Head(ws), gapThreshold, splitOnSpeaker,
                             segmentOnSentence),
                   Tail(ws), gapThreshold, splitOnSpeaker, segmentOnSentence)

buildSegments(ws, gapThreshold, splitOnSpeaker, segmentOnSentence) ==
    closeSegment(BuildScan(BuildStart, ws, gapThreshold, splitOnSpeaker,
                           segmentOnSentence), FALSE).segments

-----------------------------------------------------------------------------
(* enforceReadability *)

\* a segment made by hand may carry a text and no tokens field
segmentText(seg) ==
    IF "tokens" \in DOMAIN seg THEN concatText(seg.tokens)
    ELSE IF "text" \in DOMAIN seg THEN seg.text
    ELSE <<>>

\* index counts the words to the left of the boundary
isSafeAt(toks, index) ==
    \/ index <= 0
    \/ index >= Len(toks)
    \/ StartsWithSpace(toks[index + 1].text)
    \/ EndsWithSpace(toks[index].text)
    \/ LastChar(toks[index].text) \in SENTENCE_ENDERS
    \/ LastChar(toks[index].text) \in MINOR_BREAKERS

adjustToSafe(toks, index) ==
    LET after == {j \in (index + 1)..(Len(toks) - 1) : isSafeAt(toks, j)}
        before == {j \in 1..(index - 1) : isSafeAt(toks, j)}
    IN  IF isSafeAt(toks, index) THEN index
        ELSE IF after # {} THEN Min(after)
        ELSE IF before # {} THEN Max(before)
        ELSE index

\* findSplitIndex as it would be if it could answer the number of words
findSplitIndexAtEnd(toks) == Len(toks)

findSplitIndex(toks) ==
    LET n == Len(toks)
        midChars == SumLen(toks) \div 2
        cumulative(k) == SumLen(SubSeq(toks, 1, k))
        safeAfter == {k \in 1..(n - 1) : safeBoundary(toks[k].text, toks[k + 1].text)}
        delta(k) == Abs(cumulative(k) - midChars)
        bestDelta == Min({delta(k) : k \in safeAfter})
        bestIndex == Min({k \in safeAfter : delta(k) = bestDelta})
        mid == n \div 2
        endsSentence(i) == LastChar(toks[i].text) \in SENTENCE_ENDERS
        down == {i \in 1..mid : endsSentence(i)}
        up == {i \in (mid + 1)..(n - 1) : endsSentence(i)}
    IN  IF n <= 1 THEN 1
        ELSE IF safeAfter # {} THEN adjustToSafe(toks, bestIndex)
        ELSE IF down # {} THEN adjustToSafe(toks, Max(down))
        ELSE IF up # {} THEN adjustToSafe(toks, Min(up))
        ELSE adjustToSafe(toks, mid)

\* the condition of the split phase: a budget is exceeded and there is more
\* than one word
overBudget(seg, cfg) ==
    LET text == segmentText(seg)
        duration == Max({1, seg.end - seg.start})
    IN  \/ duration > cfg.max_dur_ms
        \/ charsForCps(text) * 1000 > cfg.max_cps * duration
        \/ Len(text) > cfg.max_cpl * cfg.max_lines

mustSplit(seg, cfg) == overBudget(seg, cfg) /\ Len(seg.tokens) > 1

\* splitChildren as it would be with the right child starting one word late
splitChildrenSkippingWord(current, cfg) ==
    LET toks == current.tokens
        idx == findSplitIndex(toks)
        leftTokens == SubSeq(toks, 1, idx)
        rightTokens == IF idx + 1 < Len(toks) THEN SubSeq(toks, idx + 2, Len(toks))
                       ELSE SubSeq(toks, idx + 1, Len(toks))
        child(ts, sentenceBreak) ==
            [tokens |-> ts,
             start |-> Coalesce(ts[1].start_ms, current.start),
             end |-> Coalesce(ts[Len(ts)].end_ms, current.end),
             speaker |-> current.speaker,
             sentence_break |-> sentenceBreak,
             prefix_ellipsis |-> FALSE,
             suffix_ellipsis |-> FALSE]
    IN  <<child(leftTokens, FALSE), child(rightTokens, current.sentence_break)>>

\* the two children of a split, left first
splitChildren(current, cfg) ==
    LET toks == current.tokens
        idx == findSplitIndex(toks)
        leftTokens == SubSeq(toks, 1, idx)
        rightTokens == SubSeq(toks, idx + 1, Len(toks))
        left == [tokens |-> leftTokens,
                 start |-> Coalesce(leftTokens[1].start_ms, current.start),
                 end |-> Coalesce(leftTokens[Len(leftTokens)].end_ms, current.end),
                 speaker |-> current.speaker,
                 sentence_break |-> FALSE,
                 prefix_ellipsis |-> FALSE,
                 suffix_ellipsis |-> cfg.ellipses]
        right == [tokens |-> rightTokens,
                  start |-> Coalesce(rightTokens[1].start_ms, current.start),
                  end |-> Coalesce(rightTokens[Len(rightTokens)].end_ms, current.end),
                  speaker |-> current.speaker,
                  sentence_break |-> current.sentence_break,
                  prefix_ellipsis |-> cfg.ellipses,
                  suffix_ellipsis |-> FALSE]
    IN  <<left, right>>

\* mergeable as it would be if a sentence boundary held a segment back
\* whatever segment_on_sentence says
mergeableUnlessSentenceBreak(first, next, cfg) ==
    /\ first.end - first.start < cfg.min_dur_ms
    /\ ~first.sentence_break
    /\ next.end - first.start <= cfg.max_dur_ms

\* mergeable as it would be without the test of the sentence boundary
mergeableAcrossSentences(first, next, cfg) ==
    /\ first.end - first.start < cfg.min_dur_ms
    /\ next.end - first.start <= cfg.max_dur_ms

\* mergeable as it would be without the test of max_dur_ms
mergeableWhateverDuration(first, next, cfg) ==
    /\ first.end - first.start < cfg.min_dur_ms
    /\ ~(cfg.segment_on_sentence /\ first.sentence_break)

\* whether the merge loop joins first with the segment after it
mergeable(first, next, cfg) ==
    /\ first.end - first.start < cfg.min_dur_ms
    /\ ~(cfg.segment_on_sentence /\ first.sentence_break)
    /\ next.end - first.start <= cfg.max_dur_ms

mergeTwo(first, next) ==
    [tokens |-> first.tokens \o next.tokens,
     start |-> first.start,
     end |-> next.end,
     speaker |-> IF first.speaker # Null THEN first.speaker ELSE next.speaker,
     sentence_break |-> next.sentence_break,
     prefix_ellipsis |-> FALSE,
     suffix_ellipsis |-> FALSE]

RECURSIVE mergePassKeepingNext(_, _)
\* mergePass as it would be with i += 1 after a merge: the second segment of
\* a merged pair is looked at again
mergePassKeepingNext(segs, cfg) ==
    IF segs = <<>> THEN <<>>
    ELSE IF Len(segs) > 1 /\ mergeable(segs[1], segs[2], cfg)
         THEN <<mergeTwo(segs[1], segs[2])>> \o mergePassKeepingNext(Tail(segs), cfg)
         ELSE <<segs[1]>> \o mergePassKeepingNext(Tail(segs), cfg)

RECURSIVE mergedInPass(_, _)
\* the flag called changed at the end of a pass: a merge was made
mergedInPass(segs, cfg) ==
    IF segs = <<>> THEN FALSE
    ELSE IF Len(segs) > 1 /\ mergeable(segs[1], segs[2], cfg) THEN TRUE
    ELSE mergedInPass(Tail(segs), cfg)

RECURSIVE mergePass(_, _)
\* one pass of the inner while loop: the list called merged
mergePass(segs, cfg) ==
    IF segs = <<>> THEN <<>>
    ELSE IF Len(segs) > 1 /\ mergeable(segs[1], segs[2], cfg)
         THEN <<mergeTwo(segs[1], segs[2])>> \o mergePass(SubSeq(segs, 3, Len(segs)), cfg)
         ELSE <<segs[1]>> \o mergePass(Tail(segs), cfg)

-----------------------------------------------------------------------------
(* Line wrapping *)

\* null, where a list of lines is expected
NullLines == << <<"null">> >>

RECURSIVE splitScan(_, _, _)
\* the for loop of splitTextByDelimiters: the pieces, given the text still to
\* read and the chunk being read
splitScan(rest, current, delimSet) ==
    IF rest = <<>>
    THEN IF Trim(current) # <<>> THEN <<Trim(current)>> ELSE <<>>
    ELSE LET char == IF Head(rest) = "U+000A" THEN " " ELSE Head(rest)
             grown == Append(current, char)
         IN  IF char \in delimSet
             THEN (IF Trim(grown) # <<>> THEN <<Trim(grown)>> ELSE <<>>)
                      \o splitScan(Tail(rest), <<>>, delimSet)
             ELSE splitScan(Tail(rest), grown, delimSet)

splitTextByDelimiters(text, delimiters) ==
    IF text = <<>> THEN <<>>
    ELSE IF delimiters = {}
         THEN LET stripped == Trim([i \in 1..Len(text) |->
                                       IF text[i] = "U+000A" THEN " " ELSE text[i]])
              IN  IF stripped # <<>> THEN <<stripped>> ELSE <<>>
         ELSE splitScan(text, <<>>, delimiters)

RECURSIVE partitionHelperAnyLength(_, _, _, _, _, _)
\* partitionHelper without the test of the line's length
partitionHelperAnyLength(chunks, maxCpl, start, remaining, end, line) ==
    IF start = Len(chunks) + 1 THEN <<>>
    ELSE IF remaining = 0 THEN NullLines
    ELSE IF end > Len(chunks) THEN NullLines
    ELSE LET grown == IF Len(line) > 0 THEN line \o <<" ">> \o chunks[end]
                      ELSE chunks[end]
             rest == partitionHelperAnyLength(chunks, maxCpl, end + 1, remaining - 1,
                                              end + 1, <<>>)
         IN  IF rest # NullLines THEN <<grown>> \o rest
             ELSE partitionHelperAnyLength(chunks, maxCpl, start, remaining, end + 1,
                                           grown)

RECURSIVE partitionHelper(_, _, _, _, _, _)
\* helper(start, remaining) of partitionChunks, in the middle of its for loop:
\* end is the next chunk to add (counted from 1) and line the line built so far
partitionHelper(chunks, maxCpl, start, remaining, end, line) ==
    IF start = Len(chunks) + 1 THEN <<>>
    ELSE IF remaining = 0 THEN NullLines
    ELSE IF end > Len(chunks) THEN NullLines
    ELSE LET grown == IF Len(line) > 0 THEN line \o <<" ">> \o chunks[end]
                      ELSE chunks[end]
             rest == partitionHelper(chunks, maxCpl, end + 1, remaining - 1,
                                     end + 1, <<>>)
         IN  IF Len(grown) > maxCpl THEN NullLines
             ELSE IF rest # NullLines THEN <<grown>> \o rest
             ELSE partitionHelper(chunks, maxCpl, start, remaining, end + 1, grown)

partitionChunks(chunks, maxLines, maxCpl) ==
    IF maxLines <= 0 THEN <<>>
    ELSE IF chunks = <<>> THEN <<>>
    ELSE partitionHelper(chunks, maxCpl, 1, maxLines, 1, <<>>)

RECURSIVE nonEmptyLines(_)
\* partition.map(line => line.trim()).filter(line => line.length > 0)
nonEmptyLines(lines) ==
    IF lines = <<>> THEN <<>>
    ELSE (IF Trim(Head(lines)) # <<>> THEN <<Trim(Head(lines))>> ELSE <<>>)
             \o nonEmptyLines(Tail(lines))

wrapWithPreferredDelimiters(text, delimiters, maxCpl, maxLines) ==
    LET chunks == splitTextByDelimiters(text, delimiters)
        partition == partitionChunks(chunks, maxLines, maxCpl)
        lines == nonEmptyLines(partition)
    IN  IF maxLines <= 1 THEN NullLines
        ELSE IF Len(chunks) <= 1 THEN NullLines
        ELSE IF partition = NullLines THEN NullLines
        ELSE IF Len(lines) <= 1 THEN NullLines
        ELSE Slice(lines, 0, maxLines)

wrapTwoLinesTokenAware(toks, text, maxCpl, maxLines, preferredDelimiters) ==
    LET stripped == Trim(text)
        n == Len(toks)
        preferred == wrapWithPreferredDelimiters(stripped, preferredDelimiters,
                                                 maxCpl, maxLines)
        \* a boundary is named by the number of words to its left
        safeAfter == {k \in 1..(n - 1) :
                         /\ toks[k + 1].text # <<>>
                         /\ safeBoundary(toks[k].text, toks[k + 1].text)}
        cumulative(k) == SumLen(SubSeq(toks, 1, k))
        left(k) == TrimEnd(concatText(SubSeq(toks, 1, k)))
        right(k) == TrimStart(concatText(SubSeq(toks, k + 1, n)))
        fits(k) == Len(left(k)) <= maxCpl /\ Len(right(k)) <= maxCpl
        over == {i \in 1..n : cumulative(i) > maxCpl}
        candidates == IF over = {} THEN {}
                      ELSE {k \in safeAfter : k <= Min(over) /\ fits(k)}
        target == SumLen(toks) \div 2
        delta(k) == Abs(cumulative(k) - target)
        nearest == Min({k \in safeAfter : \A j \in safeAfter : delta(k) <= delta(j)})
    IN  IF maxLines <= 1 THEN <<stripped>>
        ELSE IF preferredDelimiters # {} /\ preferred # NullLines THEN preferred
        ELSE IF Len(stripped) <= maxCpl THEN <<stripped>>
        ELSE IF candidates # {}
             THEN <<left(Max(candidates)), right(Max(candidates))>>
        ELSE IF safeAfter # {} /\ fits(nearest) THEN <<left(nearest), right(nearest)>>
        ELSE <<stripped>>

wrapTwoLinesNaive(text, maxCpl, maxLines, preferredDelimiters) ==
    LET trimmed == Trim(text)
        preferred == wrapWithPreferredDelimiters(trimmed, preferredDelimiters,
                                                 maxCpl, maxLines)
        target == Len(trimmed) \div 2
        \* positions count from 0, as in the code
        isSpaceAt(p) == trimmed[p + 1] = " "
        hit(delta) == \/ target - delta > 0 /\ isSpaceAt(target - delta)
                      \/ target + delta < Len(trimmed) /\ isSpaceAt(target + delta)
        hits == {delta \in 0..(Len(trimmed) - 1) : hit(delta)}
        first == Min(hits)
        breakPos == IF hits = {} THEN Min({Len(trimmed), maxCpl})
                    ELSE IF target - first > 0 /\ isSpaceAt(target - first)
                         THEN target - first
                         ELSE target + first
        cut(line) == IF Len(line) > maxCpl THEN TrimEnd(Slice(line, 0, maxCpl))
                     ELSE line
        line1 == cut(Trim(Slice(trimmed, 0, breakPos)))
        line2 == cut(Trim(Slice(trimmed, breakPos, Len(trimmed))))
        hard1 == Slice(trimmed, 0, maxCpl)
        hard2 == Slice(trimmed, maxCpl, maxCpl * 2)
    IN  IF maxLines <= 1 THEN <<trimmed>>
        ELSE IF preferredDelimiters # {} /\ preferred # NullLines THEN preferred
        ELSE IF Len(trimmed) <= maxCpl THEN <<trimmed>>
        ELSE IF \E i \in 1..Len(trimmed) : trimmed[i] = " " THEN <<line1, line2>>
        ELSE IF hard2 # <<>> THEN <<hard1, hard2>>
        ELSE <<hard1>>

\* renderEntry with lines.slice(0, config.max_lines - 1)
renderEntryDroppingLastLine(segment, index, cfg) ==
    LET plain == segmentText(segment)
        withPrefix == IF segment.prefix_ellipsis THEN <<Ellipsis>> \o plain ELSE plain
        text == IF segment.suffix_ellipsis THEN withPrefix \o <<Ellipsis>>
                ELSE withPrefix
        lines == IF "tokens" \in DOMAIN segment /\ Len(segment.tokens) > 0
                 THEN wrapTwoLinesTokenAware(segment.tokens, text, cfg.max_cpl,
                                            cfg.max_lines, cfg.line_split_delimiters)
                 ELSE wrapTwoLinesNaive(text, cfg.max_cpl, cfg.max_lines,
                                        cfg.line_split_delimiters)
    IN  [index |-> index + 1,
         start_ms |-> segment.start,
         end_ms |-> segment.end,
         lines |-> Slice(lines, 0, cfg.max_lines - 1)]

\* renderEntry numbering the entries from 0
renderEntryFromZero(segment, index, cfg) ==
    LET plain == segmentText(segment)
        withPrefix == IF segment.prefix_ellipsis THEN <<Ellipsis>> \o plain ELSE plain
        text == IF segment.suffix_ellipsis THEN withPrefix \o <<Ellipsis>>
                ELSE withPrefix
        lines == IF "tokens" \in DOMAIN segment /\ Len(segment.tokens) > 0
                 THEN wrapTwoLinesTokenAware(segment.tokens, text, cfg.max_cpl,
                                            cfg.max_lines, cfg.line_split_delimiters)
                 ELSE wrapTwoLinesNaive(text, cfg.max_cpl, cfg.max_lines,
                                        cfg.line_split_delimiters)
    IN  [index |-> index,
         start_ms |-> segment.start,
         end_ms |-> segment.end,
         lines |-> Slice(lines, 0, cfg.max_lines)]

\* the entry renderSegments makes of the segment at position index (from 0)
renderEntry(segment, index, cfg) ==
    LET plain == segmentText(segment)
        withPrefix == IF segment.prefix_ellipsis THEN <<Ellipsis>> \o plain ELSE plain
        text == IF segment.suffix_ellipsis THEN withPrefix \o <<Ellipsis>>
                ELSE withPrefix
        lines == IF "tokens" \in DOMAIN segment /\ Len(segment.tokens) > 0
                 THEN wrapTwoLinesTokenAware(segment.tokens, text, cfg.max_cpl,
                                            cfg.max_lines, cfg.line_split_delimiters)
                 ELSE wrapTwoLinesNaive(text, cfg.max_cpl, cfg.max_lines,
                                        cfg.line_split_delimiters)
    IN  [index |-> index + 1,
         start_ms |-> segment.start,
         end_ms |-> segment.end,
         lines |-> Slice(lines, 0, cfg.max_lines)]

renderSegments(segs, cfg) ==
    [i \in 1..Len(segs) |-> renderEntry(segs[i], i - 1, cfg)]

-----------------------------------------------------------------------------
(* extractTokens *)

NESTED_TOKEN_KEYS ==
    <<"alternatives", "segments", "paragraphs", "turns", "entries", "results", "items">>

RECURSIVE Flatten(_)
Flatten(lists) == IF lists = <<>> THEN <<>> ELSE Head(lists) \o Flatten(Tail(lists))

RECURSIVE collectTokensUnderAnyKey(_, _)
\* collectTokens as it would be if it walked every key of an object
collectTokensUnderAnyKey(value, skipImmediate) ==
    IF value.kind = "array"
    THEN IF /\ Len(value.items) > 0
            /\ \A i \in 1..Len(value.items) :
                   value.items[i].kind = "object" /\ value.items[i].has_text
         THEN [i \in 1..Len(value.items) |-> value.items[i].self]
         ELSE Flatten([i \in 1..Len(value.items) |->
                          collectTokensUnderAnyKey(value.items[i], FALSE)])
    ELSE IF value.kind = "object"
    THEN (IF ~skipImmediate /\ Len(value.tokens) > 0 THEN value.tokens ELSE <<>>)
         \o IF DOMAIN value.fields = {} THEN <<>>
            ELSE LET key == CHOOSE k \in DOMAIN value.fields : TRUE
                 IN  collectTokensUnderAnyKey(value.fields[key], FALSE)
    ELSE <<>>

\* A transcript value is an array [kind, items] or an object
\* [kind, has_text, self, tokens, fields]: has_text says the object has a
\* "text" key, self is the object read as a token, tokens its "tokens" array
\* (empty when the key is missing) and fields its other keys.
RECURSIVE collectTokens(_, _)
collectTokens(value, skipImmediate) ==
    IF value.kind = "array"
    THEN IF /\ Len(value.items) > 0
            /\ \A i \in 1..Len(value.items) :
                   value.items[i].kind = "object" /\ value.items[i].has_text
         THEN [i \in 1..Len(value.items) |-> value.items[i].self]
         ELSE Flatten([i \in 1..Len(value.items) |->
                          collectTokens(value.items[i], FALSE)])
    ELSE IF value.kind = "object"
    THEN (IF ~skipImmediate /\ Len(value.tokens) > 0 THEN value.tokens ELSE <<>>)
         \o Flatten([k \in 1..Len(NESTED_TOKEN_KEYS) |->
                        IF NESTED_TOKEN_KEYS[k] \in DOMAIN value.fields
                        THEN collectTokens(value.fields[NESTED_TOKEN_KEYS[k]], FALSE)
                        ELSE <<>>])
    ELSE <<>>

\* the tokens extractTokens returns; the empty list stands for its throw
extractTokens(t) ==
    IF Len(t.tokens) > 0 THEN t.tokens ELSE collectTokens(t, TRUE)

-----------------------------------------------------------------------------
(* writeSrtFile *)

NL == "U+000A"

DecimalDigits == <<"0", "1", "2", "3", "4", "5", "6", "7", "8", "9">>

RECURSIVE Digits(_)
\* the decimal digits of a natural number
Digits(n) ==
    IF n < 10 THEN <<DecimalDigits[n + 1]>>
    ELSE Append(Digits(n \div 10), DecimalDigits[(n % 10) + 1])

\* Number.prototype.toString on an integer
NumberToString(n) == IF n < 0 THEN <<"-">> \o Digits(0 - n) ELSE Digits(n)

RECURSIVE PadStart(_, _)
\* s.padStart(width, "0")
PadStart(s, width) == IF Len(s) >= width THEN s ELSE PadStart(<<"0">> \o s, width)

\* formatTimestamp without Math.max(0, ...)
formatTimestampWithoutClamp(ms) ==
    LET millis == ms
        totalSeconds == millis \div 1000
        remainderMillis == millis % 1000
        seconds == totalSeconds % 60
        totalMinutes == totalSeconds \div 60
        minutes == totalMinutes % 60
        hours == totalMinutes \div 60
    IN  PadStart(NumberToString(hours), 2) \o <<":">>
            \o PadStart(NumberToString(minutes), 2) \o <<":">>
            \o PadStart(NumberToString(seconds), 2) \o <<",">>
            \o PadStart(NumberToString(remainderMillis), 3)


formatTimestamp(ms) ==
    LET millis == Max({0, ms})
        totalSeconds == millis \div 1000
        remainderMillis == millis % 1000
        seconds == totalSeconds % 60
        totalMinutes == totalSeconds \div 60
        minutes == totalMinutes % 60
        hours == totalMinutes \div 60
    IN  PadStart(NumberToString(hours), 2) \o <<":">>
            \o PadStart(NumberToString(minutes), 2) \o <<":">>
            \o PadStart(NumberToString(seconds), 2) \o <<",">>
            \o PadStart(NumberToString(remainderMillis), 3)

RECURSIVE srtChunks(_)
\* the chunks writeSrtFile collects: one string per element
srtChunks(es) ==
    IF es = <<>> THEN <<>>
    ELSE LET entry == Head(es)
         IN  <<NumberToString(entry.index),
               formatTimestamp(entry.start_ms) \o <<" ", "-", "-", ">", " ">>
                   \o formatTimestamp(entry.end_ms)>>
             \o entry.lines
             \o <<<<>>>>
             \o srtChunks(Tail(es))

RECURSIVE JoinWith(_, _)
\* chunks.join(sep)
JoinWith(chunks, sep) ==
    IF chunks = <<>> THEN <<>>
    ELSE IF Len(chunks) = 1 THEN Head(chunks)
    ELSE Head(chunks) \o <<sep>> \o JoinWith(Tail(chunks), sep)

\* srtFileText without the newline after the joined chunks
srtFileTextWithoutNewline(es) == JoinWith(srtChunks(es), NL)

\* the text writeSrtFile writes
srtFileText(es) == JoinWith(srtChunks(es), NL) \o <<NL>>

-----------------------------------------------------------------------------
(* srt(): the calls in order *)

ExtractTokens ==
    /\ UNCHANGED otherThanSrt
    /\ pc = "extract"
    /\ LET found == extractTokens(transcript)
       IN  IF found = <<>>
           THEN /\ pc' = "failed"
                /\ error' = "No tokens found in transcript."
                /\ tokens' = tokens
           ELSE /\ pc' = "words"
                /\ error' = error
                /\ tokens' = found
    /\ UNCHANGED <<transcript, config, words, segments, pending, queue, out,
                   currentSegments, changed, entries, file>>

TokensToWords ==
    /\ UNCHANGED otherThanSrt
    /\ pc = "words"
    /\ words' = tokensToWords(tokens)
    /\ tokens' = tokensAfterWords(tokens)
    /\ pc' = "build"
    /\ UNCHANGED <<transcript, config, segments, pending, queue, out,
                   currentSegments, changed, entries, file, error>>

\* buildSegments, and tokensToSubtitleSegments' return of [] when there is no
\* segment
BuildSegments ==
    /\ UNCHANGED otherThanSrt
    /\ pc = "build"
    /\ segments' = buildSegments(words, config.gap_ms, config.split_on_speaker,
                                 config.segment_on_sentence)
    /\ pending' = segments'
    /\ pc' = IF segments' = <<>> THEN "render" ELSE "split"
    /\ UNCHANGED <<transcript, config, tokens, words, queue, out, currentSegments,
                   changed, entries, file, error>>

\* enforceReadability, split phase: one iteration of the while loop over the
\* queue, with the for loop's step to the next candidate segment when the
\* queue is empty
SplitStep ==
    /\ UNCHANGED otherThanSrt
    /\ pc = "split"
    /\ LET q == IF queue = <<>> THEN <<Head(pending)>> ELSE queue
           p == IF queue = <<>> THEN Tail(pending) ELSE pending
           current == Head(q)
           q2 == IF mustSplit(current, config)
                 THEN splitChildren(current, config) \o Tail(q)
                 ELSE Tail(q)
           out2 == IF mustSplit(current, config) THEN out ELSE Append(out, current)
       IN  /\ queue' = q2
           /\ pending' = p
           /\ out' = out2
           /\ IF q2 = <<>> /\ p = <<>>
              THEN pc' = "merge" /\ currentSegments' = out2 /\ changed' = TRUE
              ELSE pc' = "split" /\ UNCHANGED <<currentSegments, changed>>
    /\ UNCHANGED <<transcript, config, tokens, words, segments, entries, file, error>>

\* enforceReadability, merge phase: one pass of the outer while loop; the
\* function returns after a pass without a merge
MergePass ==
    /\ UNCHANGED otherThanSrt
    /\ pc = "merge"
    /\ changed
    /\ currentSegments' = mergePass(currentSegments, config)
    /\ changed' = mergedInPass(currentSegments, config)
    /\ pc' = IF changed' THEN "merge" ELSE "render"
    /\ UNCHANGED <<transcript, config, tokens, words, segments, pending, queue, out,
                   entries, file, error>>

SrtNoSegments ==
    /\ UNCHANGED otherThanSrt
    /\ pc = "render"
    /\ currentSegments = <<>>
    /\ pc' = "failed"
    /\ error' = "No subtitle segments produced from transcript."
    /\ UNCHANGED <<transcript, config, tokens, words, segments, pending, queue, out,
                   currentSegments, changed, entries, file>>

RenderSegments ==
    /\ UNCHANGED otherThanSrt
    /\ pc = "render"
    /\ currentSegments # <<>>
    /\ entries' = renderSegments(currentSegments, config)
    /\ pc' = "write"
    /\ UNCHANGED <<transcript, config, tokens, words, segments, pending, queue, out,
                   currentSegments, changed, file, error>>

WriteSrtFile ==
    /\ UNCHANGED otherThanSrt
    /\ pc = "write"
    /\ file' = srtFileText(entries)
    /\ pc' = "done"
    /\ UNCHANGED <<transcript, config, tokens, words, segments, pending, queue, out,
                   currentSegments, changed, entries, error>>

Next ==
    \/ ExtractTokens
    \/ TokensToWords
    \/ BuildSegments
    \/ SplitStep
    \/ MergePass
    \/ SrtNoSegments
    \/ RenderSegments
    \/ WriteSrtFile

-----------------------------------------------------------------------------
(* Inputs *)

\* the longest token list
MaxTokens == 3
\* the length of a timed token, and the silence before a late one
TokenMs == 500
PauseMs == 1500

Token(text, start, end, speaker) ==
    [text |-> text, start_ms |-> start, end_ms |-> end, speaker |-> speaker,
     prefix_space |-> FALSE]

TokenTexts == {<<"a">>, <<" ", "a", "a">>, <<".">>, <<" ">>}

\* a token follows the one before at once ("next"), follows after a silence
\* ("late"), or carries no times ("none")
Timings == {"next", "late", "none"}

\* a token shape: text, timing, speaker
TokenShapes == TokenTexts \X Timings \X {NoSpeaker}

RECURSIVE Timed(_, _)
\* the tokens of a list of shapes, the times running from clock
Timed(shapes, clock) ==
    IF shapes = <<>> THEN <<>>
    ELSE LET text == Head(shapes)[1]
             timing == Head(shapes)[2]
             speaker == Head(shapes)[3]
             start == IF timing = "late" THEN clock + PauseMs ELSE clock
         IN  IF timing = "none"
             THEN <<Token(text, Undefined, Undefined, speaker)>>
                      \o Timed(Tail(shapes), clock)
             ELSE <<Token(text, start, start + TokenMs, speaker)>>
                      \o Timed(Tail(shapes), start + TokenMs)

TokenLists(shapeSet, maxLen) ==
    UNION {{Timed(shapes, 0) : shapes \in [1..n -> shapeSet]} : n \in 0..maxLen}

Object(hasText, toks, fields) ==
    [kind |-> "object", has_text |-> hasText,
     self |-> Token(<<"h", "i">>, Undefined, Undefined, NoSpeaker), tokens |-> toks,
     fields |-> fields]

Array(items) == [kind |-> "array", items |-> items]

NoFields == [k \in {} |-> 0]

\* { tokens: toks } - also { text: "hi" } and { tokens: [] } when toks is empty
TopLevel(hasText, toks) == Object(hasText, toks, NoFields)

\* { <key>: [ { tokens: toks } ] }
Nested(key, toks) ==
    Object(FALSE, <<>>, [k \in {key} |-> Array(<<Object(FALSE, toks, NoFields)>>)])

\* { <key>: [ { text: "hi", tokens: toks } ] }
NestedWithText(key, toks) ==
    Object(FALSE, <<>>, [k \in {key} |-> Array(<<Object(TRUE, toks, NoFields)>>)])

Transcripts(toks) ==
    {TopLevel(FALSE, toks)}
    \cup (IF Len(toks) <= 1
          THEN {TopLevel(TRUE, toks), Nested("results", toks), Nested("words", toks),
                NestedWithText("segments", toks)}
          ELSE {})

DEFAULT_GAP_MS == 1200
DEFAULT_MIN_DUR_MS == 1000
DEFAULT_MAX_DUR_MS == 7000
DEFAULT_MAX_CPS == 17
DEFAULT_MAX_CPL == 42
DEFAULT_MAX_LINES == 2

\* new SubtitleConfig()
DefaultConfig ==
    [gap_ms |-> DEFAULT_GAP_MS, min_dur_ms |-> DEFAULT_MIN_DUR_MS,
     max_dur_ms |-> DEFAULT_MAX_DUR_MS, max_cps |-> DEFAULT_MAX_CPS,
     max_cpl |-> DEFAULT_MAX_CPL, max_lines |-> DEFAULT_MAX_LINES,
     line_split_delimiters |-> {}, segment_on_sentence |-> FALSE,
     split_on_speaker |-> FALSE, ellipses |-> FALSE]

\* new SubtitleConfig({minDurMs, maxDurMs, maxCps, maxCpl, segmentOnSentence,
\* ellipses})
Config(min_dur, max_dur, max_cps, max_cpl, on_sentence, ellipses) ==
    [DefaultConfig EXCEPT !.min_dur_ms = min_dur, !.max_dur_ms = max_dur,
                          !.max_cps = max_cps, !.max_cpl = max_cpl,
                          !.segment_on_sentence = on_sentence,
                          !.ellipses = ellipses]

\* budgets small enough for the model's short texts to exceed them
NoMinDurMs == 0
ShortMaxDurMs == 2000
LowMaxCps == 3
NarrowMaxCpl == 2

Configs ==
    {DefaultConfig,
     Config(DEFAULT_MIN_DUR_MS, DEFAULT_MAX_DUR_MS, DEFAULT_MAX_CPS, DEFAULT_MAX_CPL,
            TRUE, FALSE),
     Config(NoMinDurMs, DEFAULT_MAX_DUR_MS, LowMaxCps, DEFAULT_MAX_CPL, FALSE, FALSE),
     Config(DEFAULT_MIN_DUR_MS, DEFAULT_MAX_DUR_MS, LowMaxCps, DEFAULT_MAX_CPL,
            FALSE, TRUE),
     Config(DEFAULT_MIN_DUR_MS, ShortMaxDurMs, LowMaxCps, DEFAULT_MAX_CPL, TRUE, FALSE),
     Config(DEFAULT_MIN_DUR_MS, ShortMaxDurMs, DEFAULT_MAX_CPS, DEFAULT_MAX_CPL,
            FALSE, FALSE),
     Config(NoMinDurMs, DEFAULT_MAX_DUR_MS, DEFAULT_MAX_CPS, NarrowMaxCpl, FALSE, TRUE),
     Config(DEFAULT_MIN_DUR_MS, DEFAULT_MAX_DUR_MS, DEFAULT_MAX_CPS, NarrowMaxCpl,
            TRUE, FALSE)}

\* formatTimestamp is not called on its own
TimestampIdle ==
    /\ inputMs = 0
    /\ stamp = <<>>

\* transcribeAudio is not called
TranscriberIdle ==
    /\ tpc = "idle"
    /\ options = [audioPath |-> "undefined", audioUrl |-> "undefined",
                  keepRemote |-> FALSE, client |-> FALSE, apiKey |-> FALSE]
    /\ ownsClient = FALSE
    /\ fileId = "undefined"
    /\ transcriptionId = "undefined"
    /\ calls = <<>>
    /\ thrown = ""
    /\ promise = "pending"

\* a promise nobody has settled
PendingPromise == [state |-> "pending", value |-> [kind |-> "undefined"]]

\* runRealtimeSession is not called
RealtimeIdle ==
    /\ readyState = "idle"
    /\ sent = <<>>
    /\ responses = <<>>
    /\ finalTokens = <<>>
    /\ stream = "idle"
    /\ chunksLeft = 0
    /\ chunkSleepMs = 0
    /\ session = PendingPromise

\* nothing but srt() runs
OthersIdle == TimestampIdle /\ TranscriberIdle /\ RealtimeIdle

InitWith(tokenLists, configs) ==
    /\ pc = "extract"
    /\ \E toks \in tokenLists : transcript \in Transcripts(toks)
    /\ config \in configs
    /\ tokens = <<>>
    /\ words = <<>>
    /\ segments = <<>>
    /\ pending = <<>>
    /\ queue = <<>>
    /\ out = <<>>
    /\ currentSegments = <<>>
    /\ changed = FALSE
    /\ entries = <<>>
    /\ file = NoFile
    /\ error = ""
    /\ OthersIdle

Init == InitWith(TokenLists(TokenShapes, MaxTokens), Configs)

Spec == Init /\ [][Next]_vars

-----------------------------------------------------------------------------
(* Word assembly alone: richer token texts, every token timed *)

WordTexts ==
    {<<>>, <<"a">>, <<" ", "a">>, <<" ", " ", "a">>, <<"U+0009", "a">>, <<"a", " ">>,
     <<".">>, <<"U+2026">>, <<"U+3002">>, <<" ">>, <<"U+4E2D">>}

WordShapes == WordTexts \X {"next"} \X {NoSpeaker}

InitWords == InitWith(TokenLists(WordShapes, MaxTokens), {DefaultConfig})

NextWords == ExtractTokens \/ TokensToWords

SpecWords == InitWords /\ [][NextWords]_vars

-----------------------------------------------------------------------------
(* Segmentation with speaker labels and split_on_speaker *)

Speakers == {NoSpeaker, "", "1", "2"}

SpeakerShapes == {<<" ", "a">>, <<"a">>, <<" ">>} \X {"next"} \X Speakers

SpeakerConfigs ==
    {[DefaultConfig EXCEPT !.split_on_speaker = TRUE],
     [DefaultConfig EXCEPT !.split_on_speaker = TRUE, !.segment_on_sentence = TRUE]}

InitSpeaker == InitWith(TokenLists(SpeakerShapes, MaxTokens), SpeakerConfigs)

SpecSpeaker == InitSpeaker /\ [][Next]_vars

-----------------------------------------------------------------------------
(* The loops of enforceReadability running on, on timed tokens and budgets
   that force splits and merges: the code is synchronous, so a loop that can
   take a step takes it *)

LiveShapes ==
    {<<" ", "a", "a">>, <<".">>, <<" ">>, <<"U+4E2D">>} \X {"next", "late"} \X {NoSpeaker}

LiveConfigs ==
    {Config(DEFAULT_MIN_DUR_MS, DEFAULT_MAX_DUR_MS, LowMaxCps, DEFAULT_MAX_CPL,
            FALSE, FALSE),
     Config(DEFAULT_MIN_DUR_MS, ShortMaxDurMs, DEFAULT_MAX_CPS, DEFAULT_MAX_CPL,
            TRUE, FALSE)}

InitLive == InitWith(TokenLists(LiveShapes, MaxTokens), LiveConfigs)

SpecLive ==
    InitLive /\ [][Next]_vars /\ WF_vars(SplitStep) /\ WF_vars(MergePass)

-----------------------------------------------------------------------------
(* renderSegments and writeSrtFile alone, on segments made by hand: with
   words, or with a text and no tokens field *)

MaxRenderSegments == 2
RunLen == 5

\* a run of letters without a space
Run == [i \in 1..RunLen |-> "a"]

Word(text) ==
    [text |-> text, start_ms |-> 0, end_ms |-> 0, speaker |-> NoSpeaker,
     inner |-> <<>>, prefix_space |-> StartsWithSpace(text)]

RenderWordLists ==
    {<<Word(Run)>>, <<Word(<<"a", "a">>), Word(<<" ", "a", "a">>)>>,
     <<Word(<<"a", ",">>), Word(<<" ", "a">>)>>, <<Word(<<"a">>)>>}

RenderTexts ==
    {Run, <<"a", "a", " ", "a", "a">>, <<"a", ",", "a">>, <<"a", ",", "a", ",", "a">>,
     <<"a">>}

\* a segment without its times: with words, or with a text only
RenderShapes ==
    {[tokens |-> ws, speaker |-> Null, sentence_break |-> FALSE,
      prefix_ellipsis |-> FALSE, suffix_ellipsis |-> FALSE] : ws \in RenderWordLists}
    \cup {[text |-> t, speaker |-> Null, sentence_break |-> FALSE,
           prefix_ellipsis |-> e, suffix_ellipsis |-> e] :
              t \in RenderTexts, e \in {FALSE}}
    \cup {[text |-> <<"a">>, speaker |-> Null, sentence_break |-> FALSE,
           prefix_ellipsis |-> TRUE, suffix_ellipsis |-> TRUE]}

\* the segment of a shape at position i (from 1), one after the other in time
Placed(shape, i) ==
    [k \in DOMAIN shape \cup {"start", "end"} |->
        IF k = "start" THEN (i - 1) * TokenMs
        ELSE IF k = "end" THEN i * TokenMs
        ELSE shape[k]]

RenderSegmentLists ==
    UNION {{[i \in 1..n |-> Placed(f[i], i)] : f \in [1..n -> RenderShapes]} :
              n \in 1..MaxRenderSegments}

RenderConfigs ==
    {[DefaultConfig EXCEPT !.max_cpl = cpl, !.max_lines = lines,
                           !.line_split_delimiters = delims] :
        cpl \in {NarrowMaxCpl, DEFAULT_MAX_CPL},
        lines \in {1, DEFAULT_MAX_LINES, DEFAULT_MAX_LINES + 1},
        delims \in {{}, {","}}}

InitRender ==
    /\ pc = "render"
    /\ currentSegments \in RenderSegmentLists
    /\ config \in RenderConfigs
    /\ transcript = TopLevel(FALSE, <<>>)
    /\ tokens = <<>>
    /\ words = <<>>
    /\ segments = <<>>
    /\ pending = <<>>
    /\ queue = <<>>
    /\ out = <<>>
    /\ changed = FALSE
    /\ entries = <<>>
    /\ file = NoFile
    /\ error = ""
    /\ OthersIdle

NextRender == RenderSegments \/ WriteSrtFile

SpecRender == InitRender /\ [][NextRender]_vars

-----------------------------------------------------------------------------
(* formatTimestamp alone *)

MaxHours == 100
MaxNegativeMs == 3

\* nothing of srt() runs
SrtIdle ==
    /\ pc = "idle"
    /\ transcript = TopLevel(FALSE, <<>>)
    /\ config = DefaultConfig
    /\ tokens = <<>>
    /\ words = <<>>
    /\ segments = <<>>
    /\ pending = <<>>
    /\ queue = <<>>
    /\ out = <<>>
    /\ currentSegments = <<>>
    /\ changed = FALSE
    /\ entries = <<>>
    /\ file = NoFile
    /\ error = ""

\* whole numbers of milliseconds around every carry of the clock, up to three
\* digits of hours, and some below zero
TimestampInputs ==
    {h * 3600000 + m * 60000 + sec * 1000 + f :
        h \in {0, 1, 10, MaxHours - 1, MaxHours}, m \in {0, 1, 59}, sec \in {0, 1, 59},
        f \in {0, 1, 999}}
    \cup {0 - k : k \in 1..MaxNegativeMs}
    \cup {0 - 1000, 0 - 60000, 0 - 3600000}

InitTimestamp ==
    /\ SrtIdle
    /\ TranscriberIdle
    /\ RealtimeIdle
    /\ inputMs \in TimestampInputs
    /\ stamp = <<>>

FormatTimestamp ==
    /\ stamp = <<>>
    /\ stamp' = formatTimestamp(inputMs)
    /\ UNCHANGED <<srtVars, transcriberVars, realtimeVars, inputMs>>

NextTimestamp == FormatTimestamp

SpecTimestamp == InitTimestamp /\ [][NextTimestamp]_vars

-----------------------------------------------------------------------------
(* transcribeAudio (ts/src/transcriber.ts): the calls it makes on the client.
   The client is the caller's or the network's: each of its operations either
   answers or throws. *)

NoId == "undefined"

\* calls with one more call on the client: its operation, its argument and
\* whether it answered
Called(op, arg, ok) == Append(calls, [op |-> op, arg |-> arg, ok |-> ok])

\* CheckOptions as it would be without the test that a source is named
CheckOptionsWithoutSource ==
    /\ tpc = "start"
    /\ IF options.audioPath = "missing"
       THEN /\ thrown' = "Audio file not found"
            /\ promise' = "rejected"
            /\ tpc' = "settled"
       ELSE /\ tpc' = "client"
            /\ UNCHANGED <<thrown, promise>>
    /\ UNCHANGED <<options, ownsClient, fileId, transcriptionId, calls>>
    /\ UNCHANGED <<srtVars, timestampVars, realtimeVars>>

\* the options object is checked: a source is named, the audio file exists
CheckOptions ==
    /\ tpc = "start"
    /\ IF options.audioPath = "undefined" /\ options.audioUrl = "undefined"
       THEN /\ thrown' = "Specify either audioPath or audioUrl."
            /\ promise' = "rejected"
            /\ tpc' = "settled"
       ELSE IF options.audioPath = "missing"
       THEN /\ thrown' = "Audio file not found"
            /\ promise' = "rejected"
            /\ tpc' = "settled"
       ELSE /\ tpc' = "client"
            /\ UNCHANGED <<thrown, promise>>
    /\ UNCHANGED <<options, ownsClient, fileId, transcriptionId, calls>>
    /\ UNCHANGED <<srtVars, timestampVars, realtimeVars>>

\* ensureClient: the caller's client, or a new one when the API key is found
EnsureClient ==
    /\ tpc = "client"
    /\ IF options.client
       THEN /\ ownsClient' = FALSE
            /\ tpc' = "upload"
            /\ UNCHANGED <<thrown, promise>>
       ELSE IF options.apiKey
       THEN /\ ownsClient' = TRUE
            /\ tpc' = "upload"
            /\ UNCHANGED <<thrown, promise>>
       ELSE /\ thrown' = "requireApiKey failed"
            /\ promise' = "rejected"
            /\ tpc' = "settled"
            /\ UNCHANGED ownsClient
    /\ UNCHANGED <<options, fileId, transcriptionId, calls>>
    /\ UNCHANGED <<srtVars, timestampVars, realtimeVars>>

UploadFile ==
    /\ tpc = "upload"
    /\ IF options.audioPath = "exists"
       THEN \E ok \in BOOLEAN :
                /\ calls' = Called("uploadFile", options.audioPath, ok)
                /\ fileId' = IF ok THEN "file-1" ELSE fileId
                /\ thrown' = IF ok THEN thrown ELSE "uploadFile failed"
                /\ tpc' = IF ok THEN "create" ELSE "deleteTranscription"
       ELSE /\ tpc' = "create"
            /\ UNCHANGED <<calls, fileId, thrown>>
    /\ UNCHANGED <<options, ownsClient, transcriptionId, promise>>
    /\ UNCHANGED <<srtVars, timestampVars, realtimeVars>>

CreateTranscription ==
    /\ tpc = "create"
    /\ \E ok \in BOOLEAN :
           /\ calls' = Called("createTranscription", <<fileId, options.audioUrl>>, ok)
           /\ transcriptionId' = IF ok THEN "transcription-1" ELSE transcriptionId
           /\ thrown' = IF ok THEN thrown ELSE "createTranscription failed"
           /\ tpc' = IF ok THEN "wait" ELSE "deleteTranscription"
    /\ UNCHANGED <<options, ownsClient, fileId, promise>>
    /\ UNCHANGED <<srtVars, timestampVars, realtimeVars>>

WaitForCompletion ==
    /\ tpc = "wait"
    /\ \E ok \in BOOLEAN :
           /\ calls' = Called("waitForCompletion", transcriptionId, ok)
           /\ thrown' = IF ok THEN thrown ELSE "waitForCompletion failed"
           /\ tpc' = IF ok THEN "fetch" ELSE "deleteTranscription"
    /\ UNCHANGED <<options, ownsClient, fileId, transcriptionId, promise>>
    /\ UNCHANGED <<srtVars, timestampVars, realtimeVars>>

\* fetchTranscript as it would be if its answer were returned past the
\* finally block
FetchTranscriptWithoutFinally ==
    /\ tpc = "fetch"
    /\ \E ok \in BOOLEAN :
           /\ calls' = Called("fetchTranscript", transcriptionId, ok)
           /\ thrown' = IF ok THEN thrown ELSE "fetchTranscript failed"
           /\ tpc' = IF ok THEN "close" ELSE "deleteTranscription"
    /\ UNCHANGED <<options, ownsClient, fileId, transcriptionId, promise>>
    /\ UNCHANGED <<srtVars, timestampVars, realtimeVars>>

\* the return of the transcript and the throw of an error both go through the
\* finally block
FetchTranscript ==
    /\ tpc = "fetch"
    /\ \E ok \in BOOLEAN :
           /\ calls' = Called("fetchTranscript", transcriptionId, ok)
           /\ thrown' = IF ok THEN thrown ELSE "fetchTranscript failed"
           /\ tpc' = "deleteTranscription"
    /\ UNCHANGED <<options, ownsClient, fileId, transcriptionId, promise>>
    /\ UNCHANGED <<srtVars, timestampVars, realtimeVars>>

\* finally: the transcription is deleted unless keepRemote; an error of the
\* delete is logged and dropped
DeleteTranscription ==
    /\ tpc = "deleteTranscription"
    /\ IF ~options.keepRemote /\ transcriptionId # NoId
       THEN \E ok \in BOOLEAN :
                calls' = Called("deleteTranscription", transcriptionId, ok)
       ELSE UNCHANGED calls
    /\ tpc' = "deleteFile"
    /\ UNCHANGED <<options, ownsClient, fileId, transcriptionId, thrown, promise>>
    /\ UNCHANGED <<srtVars, timestampVars, realtimeVars>>

\* DeleteFile as it would be without the test of keepRemote
DeleteFileWhateverKeepRemote ==
    /\ tpc = "deleteFile"
    /\ IF fileId # NoId
       THEN \E ok \in BOOLEAN : calls' = Called("deleteFile", fileId, ok)
       ELSE UNCHANGED calls
    /\ tpc' = "close"
    /\ UNCHANGED <<options, ownsClient, fileId, transcriptionId, thrown, promise>>
    /\ UNCHANGED <<srtVars, timestampVars, realtimeVars>>

\* finally: the uploaded file is deleted unless keepRemote
DeleteFile ==
    /\ tpc = "deleteFile"
    /\ IF ~options.keepRemote /\ fileId # NoId
       THEN \E ok \in BOOLEAN : calls' = Called("deleteFile", fileId, ok)
       ELSE UNCHANGED calls
    /\ tpc' = "close"
    /\ UNCHANGED <<options, ownsClient, fileId, transcriptionId, thrown, promise>>
    /\ UNCHANGED <<srtVars, timestampVars, realtimeVars>>

\* finally: a client the call made is closed; then the promise settles
CloseClient ==
    /\ tpc = "close"
    /\ calls' = IF ownsClient THEN Called("close", NoId, TRUE) ELSE calls
    /\ promise' = IF thrown = "" THEN "resolved" ELSE "rejected"
    /\ tpc' = "settled"
    /\ UNCHANGED <<options, ownsClient, fileId, transcriptionId, thrown>>
    /\ UNCHANGED <<srtVars, timestampVars, realtimeVars>>

\* the options of a call and what they meet: the audio file is there or not,
\* the API key is found or not
TranscribeOptions ==
    [audioPath : {"undefined", "missing", "exists"},
     audioUrl : {"undefined", "url"},
     keepRemote : BOOLEAN,
     client : BOOLEAN,
     apiKey : BOOLEAN]

InitTranscribe ==
    /\ SrtIdle
    /\ TimestampIdle
    /\ RealtimeIdle
    /\ tpc = "start"
    /\ options \in TranscribeOptions
    /\ ownsClient = FALSE
    /\ fileId = NoId
    /\ transcriptionId = NoId
    /\ calls = <<>>
    /\ thrown = ""
    /\ promise = "pending"

NextTranscribe ==
    \/ CheckOptions
    \/ EnsureClient
    \/ UploadFile
    \/ CreateTranscription
    \/ WaitForCompletion
    \/ FetchTranscript
    \/ DeleteTranscription
    \/ DeleteFile
    \/ CloseClient

SpecTranscribe == InitTranscribe /\ [][NextTranscribe]_vars

-----------------------------------------------------------------------------
(* Word assembly and segmentation alone: words that end with a space, a tab,
   a mark or a letter, with and without a silence before them *)

BuildTexts ==
    {<<" ", "a">>, <<"a">>, <<".">>, <<"a", ".">>, <<"U+4E2D">>, <<"U+4E2D", "U+0009">>,
     <<"U+4E2D", " ">>}

BuildShapes == BuildTexts \X {"next", "late"} \X {NoSpeaker}

BuildConfigs ==
    {DefaultConfig,
     [DefaultConfig EXCEPT !.segment_on_sentence = TRUE],
     [DefaultConfig EXCEPT !.gap_ms = 0]}

InitBuild == InitWith(TokenLists(BuildShapes, MaxTokens), BuildConfigs)

NextBuild == ExtractTokens \/ TokensToWords \/ BuildSegments

SpecBuild == InitBuild /\ [][NextBuild]_vars

-----------------------------------------------------------------------------
(* runRealtimeSession: the promise it returns, from the moment the WebSocket
   is created and the four handlers are registered. Every handler runs to its
   end before the next event; streamAudio runs with the handlers, one loop
   iteration at a time, and gives way only at its await. *)

DEFAULT_AUDIO_SLEEP_MS == 120

MaxChunks == 2
MaxMessages == 3
MaxErrorCode == 1

\* payload.error_code of a payload without the field
NoErrorCode == Undefined

\* resolve, as it would be if it settled a promise already settled
resolveOverriding(p, value) == [state |-> "resolved", value |-> value]

\* the resolve and reject of a promise: the first call settles it
resolve(p, value) ==
    IF p.state = "pending" THEN [state |-> "resolved", value |-> value] ELSE p

reject(p, reason) ==
    IF p.state = "pending" THEN [state |-> "rejected", value |-> reason] ELSE p

\* new Error(`Realtime session error ${errorCode}: ${errorMessage}`)
SessionError(errorCode) ==
    [kind |-> "Error", message |-> "Realtime session error", code |-> errorCode]

\* the error of the socket's error event
SocketError == [kind |-> "Error", message |-> "socket"]

\* what streamAudio throws: of openSync, readSync or ws.send
StreamError == [kind |-> "Error", message |-> "stream"]

\* new RealTimeResult(model, [...finalTokens], responses)
RealTimeResult(tokensSoFar) == [kind |-> "RealTimeResult", finalTokens |-> tokensSoFar]

\* the payloads the server sends: updates with and without tokens, the last
\* update (finished), and errors
RealtimePayloads ==
    {[error_code |-> NoErrorCode, tokens |-> t, finished |-> f] :
        t \in {<<>>, <<[text |-> <<"a">>, is_final |-> TRUE],
                       [text |-> <<"b">>, is_final |-> FALSE],
                       [text |-> <<>>, is_final |-> TRUE]>>},
        f \in BOOLEAN}
    \cup {[error_code |-> c, tokens |-> <<>>, finished |-> f] :
             c \in 0..MaxErrorCode, f \in BOOLEAN}

\* the tokens a payload adds to finalTokens
finalOf(payload) ==
    SelectSeq(payload.tokens, LAMBDA token : token.text # <<>> /\ token.is_final)

\* ws.on("open"): the configuration is sent and streamAudio starts
OnOpen ==
    /\ readyState = "connecting"
    /\ readyState' = "open"
    /\ sent' = Append(sent, "config")
    /\ stream' = "running"
    /\ UNCHANGED <<responses, finalTokens, chunksLeft, chunkSleepMs, session>>
    /\ UNCHANGED <<srtVars, timestampVars, transcriberVars>>

\* streamAudio: one iteration of its loop, up to the await or the return.
\* Reading the file may throw; ws.send on a socket that is no longer open
\* either drops the data or throws, as the library decides. What it throws
\* goes to reject through .catch(reject).
StreamAudio ==
    /\ stream \in {"running", "sleeping"}
    /\ \E outcome \in {"throws"} \cup
                       (IF readyState = "open" THEN {"sent"} ELSE {"dropped", "throws"}) :
          IF outcome = "throws"
          THEN /\ stream' = "failed"
               /\ session' = reject(session, StreamError)
               /\ UNCHANGED <<sent, chunksLeft>>
          ELSE /\ sent' = IF outcome = "sent"
                          THEN Append(sent, IF chunksLeft = 0 THEN "" ELSE "chunk")
                          ELSE sent
               /\ chunksLeft' = IF chunksLeft = 0 THEN 0 ELSE chunksLeft - 1
               /\ stream' = IF chunksLeft = 0 THEN "done"
                            ELSE IF chunkSleepMs > 0 THEN "sleeping" ELSE "running"
               /\ UNCHANGED session
    /\ UNCHANGED <<readyState, responses, finalTokens, chunkSleepMs>>
    /\ UNCHANGED <<srtVars, timestampVars, transcriberVars>>

\* ws.on("message")
OnMessage(payload) ==
    /\ readyState \in {"open", "closing"}
    /\ stream # "running"
    /\ Len(responses) < MaxMessages
    /\ responses' = Append(responses, payload)
    /\ IF payload.error_code # NoErrorCode
       THEN /\ session' = reject(session, SessionError(payload.error_code))
            /\ readyState' = "closing"
            /\ UNCHANGED finalTokens
       ELSE /\ finalTokens' = finalTokens \o finalOf(payload)
            /\ IF payload.finished
               THEN /\ readyState' = "closing"
                    /\ session' = resolve(session, RealTimeResult(finalTokens'))
               ELSE UNCHANGED <<readyState, session>>
    /\ UNCHANGED <<sent, stream, chunksLeft, chunkSleepMs>>
    /\ UNCHANGED <<srtVars, timestampVars, transcriberVars>>

\* ws.on("error"): after it the socket only closes
OnError ==
    /\ readyState \in {"connecting", "open", "closing"}
    /\ stream # "running"
    /\ session' = reject(session, SocketError)
    /\ readyState' = "broken"
    /\ UNCHANGED <<sent, responses, finalTokens, stream, chunksLeft, chunkSleepMs>>
    /\ UNCHANGED <<srtVars, timestampVars, transcriberVars>>

\* ws.on("close"): after ws.close(), after an error, or when the server closes
OnClose ==
    /\ readyState \in {"open", "closing", "broken"}
    /\ stream # "running"
    /\ session' = resolve(session, RealTimeResult(finalTokens))
    /\ readyState' = "closed"
    /\ UNCHANGED <<sent, responses, finalTokens, stream, chunksLeft, chunkSleepMs>>
    /\ UNCHANGED <<srtVars, timestampVars, transcriberVars>>

InitRealtime ==
    /\ SrtIdle
    /\ TimestampIdle
    /\ TranscriberIdle
    /\ readyState = "connecting"
    /\ sent = <<>>
    /\ responses = <<>>
    /\ finalTokens = <<>>
    /\ stream = "idle"
    /\ chunksLeft \in 0..MaxChunks
    /\ chunkSleepMs \in {0, DEFAULT_AUDIO_SLEEP_MS}
    /\ session = PendingPromise

NextRealtime ==
    \/ OnOpen
    \/ StreamAudio
    \/ \E payload \in RealtimePayloads : OnMessage(payload)
    \/ OnError
    \/ OnClose

SpecRealtime == InitRealtime /\ [][NextRealtime]_vars

-----------------------------------------------------------------------------
(* Properties *)

\* buildSegments has returned a non-empty list
Built == pc \in {"split", "merge", "render", "write", "done"}

\* tokensToSubtitleSegments has returned: currentSegments is its result
Returned == pc \in {"render", "write", "done"}

RECURSIVE WordsOf(_)
\* the words of a list of segments, in order
WordsOf(segs) == IF segs = <<>> THEN <<>> ELSE Head(segs).tokens \o WordsOf(Tail(segs))

\* the three budgets of the readability enforcer
WithinBudgets(seg, cfg) ==
    /\ seg.end - seg.start <= cfg.max_dur_ms
    /\ charsForCps(segmentText(seg)) * 1000 <= cfg.max_cps * Max({1, seg.end - seg.start})
    /\ Len(segmentText(seg)) <= cfg.max_cpl * cfg.max_lines

\* C1: every final segment with two or more words is within the duration,
\* reading-speed and character budgets.
C1_BudgetBestEffort ==
    Returned =>
        \A i \in 1..Len(currentSegments) :
            Len(currentSegments[i].tokens) >= 2 => WithinBudgets(currentSegments[i], config)

\* C2: every line of every rendered entry is at most max_cpl characters long.
C2_LineBound ==
    pc \in {"write", "done"} =>
        \A i \in 1..Len(entries) :
            \A j \in 1..Len(entries[i].lines) :
                Len(entries[i].lines[j]) <= config.max_cpl

\* C4: the final segments start in non-decreasing order and none ends before
\* it starts.
C4_Monotonicity ==
    Returned =>
        /\ \A i \in 1..(Len(currentSegments) - 1) :
               currentSegments[i].start <= currentSegments[i + 1].start
        /\ \A i \in 1..Len(currentSegments) :
               currentSegments[i].end >= currentSegments[i].start

NonOverlapping(segs) == \A i \in 1..(Len(segs) - 1) : segs[i].end <= segs[i + 1].start

\* C5: the candidate segments, and the final segments, do not overlap: each
\* ends no later than the next one starts.
C5_NonOverlap ==
    /\ Built => NonOverlapping(segments)
    /\ Returned => NonOverlapping(currentSegments)

\* the speaker labels of the tokens a segment is made of, empty ones left out
SpeakersIn(seg) ==
    UNION {{seg.tokens[i].inner[j].speaker : j \in 1..Len(seg.tokens[i].inner)} :
              i \in 1..Len(seg.tokens)}
    \ {NoSpeaker, Null, ""}

\* C6: with split_on_speaker, no candidate segment holds words of two
\* different non-empty speakers.
C6_SpeakerSplit ==
    (Built /\ config.split_on_speaker) =>
        \A i \in 1..Len(segments) : Cardinality(SpeakersIn(segments[i])) <= 1

\* C7: every final segment has at least one word and a non-empty trimmed
\* text.
C7_NonEmptySegments ==
    Returned =>
        \A i \in 1..Len(currentSegments) :
            /\ Len(currentSegments[i].tokens) >= 1
            /\ segmentText(currentSegments[i]) # <<>>

\* C8: enforceReadability keeps the words: at every point of the split phase
\* the emitted, queued and untaken segments together hold the words of the
\* input segments in order, and so does the list of the merge phase after each
\* pass and on return.
C8_WordsConserved ==
    /\ pc = "split" => WordsOf(out) \o WordsOf(queue) \o WordsOf(pending) = WordsOf(segments)
    /\ pc \in {"merge", "render", "write", "done"} =>
           WordsOf(currentSegments) = WordsOf(segments)

\* a run in which enforceReadability returned after splitting a segment and
\* merging two
C8_Witness ==
    /\ pc = "render"
    /\ Len(out) > Len(segments)
    /\ Len(currentSegments) < Len(out)

\* C9: in the output of enforceReadability no adjacent pair can still be
\* merged: a segment shorter than min_dur_ms that has a successor is kept from
\* merging by max_dur_ms or by its sentence boundary.
C9_MergeFloor ==
    (Returned /\ segments # <<>>) =>
        \A i \in 1..(Len(currentSegments) - 1) :
            LET a == currentSegments[i]
                b == currentSegments[i + 1]
            IN  a.end - a.start < config.min_dur_ms =>
                    \/ b.end - a.start > config.max_dur_ms
                    \/ config.segment_on_sentence /\ a.sentence_break

\* a returned list, after a pass that merged, in which a short segment without
\* a sentence boundary is kept from its successor by max_dur_ms
C9_Witness ==
    /\ pc = "render"
    /\ Len(currentSegments) < Len(out)
    /\ \E i \in 1..(Len(currentSegments) - 1) :
           /\ currentSegments[i].end - currentSegments[i].start < config.min_dur_ms
           /\ currentSegments[i + 1].end - currentSegments[i].start > config.max_dur_ms
           /\ ~currentSegments[i].sentence_break

\* tokensToWords has just returned
Assembled == pc = "build"

RECURSIVE InnerOf(_)
\* the member tokens of a list of words, in order
InnerOf(ws) == IF ws = <<>> THEN <<>> ELSE Head(ws).inner \o InnerOf(Tail(ws))

HasText(token) == token.text # <<>>

\* each token with text is a member of exactly one word, in the order of the
\* input
EachTokenInOneWord == InnerOf(words) = SelectSeq(tokens, HasText)

\* a token text with its leading white space replaced by one space
LeadingSpaceCollapsed(text) ==
    IF text # <<>> /\ text[1] \in Whitespace THEN <<" ">> \o TrimStart(text) ELSE text

RECURSIVE JoinCollapsed(_)
JoinCollapsed(toks) ==
    IF toks = <<>> THEN <<>>
    ELSE LeadingSpaceCollapsed(Head(toks).text) \o JoinCollapsed(Tail(toks))

\* C3 as stated: the words hold each token with text once, in order, and their
\* texts joined and trimmed are the token texts joined and trimmed, character
\* for character.
C3_WordConservation ==
    Assembled =>
        /\ EachTokenInOneWord
        /\ Trim(JoinTexts(words)) = Trim(JoinTexts(tokens))

\* C3 as amended: the words hold each token with text once, in order, and
\* their texts joined and trimmed are the token texts joined and trimmed once
\* the white space a token begins with is replaced by a single space.
C3_WordConservationCollapsed ==
    Assembled =>
        /\ EachTokenInOneWord
        /\ Trim(JoinTexts(words)) = Trim(JoinCollapsed(tokens))

\* words were assembled from a stream in which a later token begins with a run
\* of white space that is not one space, and one word has several tokens
C3_Witness ==
    /\ Assembled
    /\ \E i \in 2..Len(tokens) :
           /\ Len(tokens[i].text) > 1
           /\ tokens[i].text[1] \in Whitespace
           /\ LeadingSpaceCollapsed(tokens[i].text) # tokens[i].text
    /\ \E i \in 1..Len(words) : Len(words[i].inner) > 1
    /\ Len(words) > 1

RECURSIVE HasTokenListUnder(_)
\* a value under a recognized container key holds a non-empty token list: a
\* non-empty array of objects with text, or an object with a non-empty
\* "tokens" array, or such a value further down under recognized keys
HasTokenListUnder(value) ==
    IF value.kind = "array"
    THEN /\ Len(value.items) > 0
         /\ \/ \A i \in 1..Len(value.items) :
                   value.items[i].kind = "object" /\ value.items[i].has_text
            \/ \E i \in 1..Len(value.items) : HasTokenListUnder(value.items[i])
    ELSE /\ value.kind = "object"
         /\ \/ Len(value.tokens) > 0
            \/ \E k \in DOMAIN value.fields :
                   /\ \E n \in 1..Len(NESTED_TOKEN_KEYS) : NESTED_TOKEN_KEYS[n] = k
                   /\ HasTokenListUnder(value.fields[k])

\* the transcript has a non-empty token list at top level or under a
\* recognized nested container key
HasTokenList(t) ==
    \/ Len(t.tokens) > 0
    \/ \E k \in DOMAIN t.fields :
           /\ \E n \in 1..Len(NESTED_TOKEN_KEYS) : NESTED_TOKEN_KEYS[n] = k
           /\ HasTokenListUnder(t.fields[k])

\* C10: a transcript without a usable token list makes extractTokens throw,
\* srt() fails there, and no file is written.
C10_InputError ==
    (pc # "extract" /\ ~HasTokenList(transcript)) =>
        /\ pc = "failed"
        /\ error = "No tokens found in transcript."
        /\ file = NoFile

\* srt() failed on a transcript whose only token list sits under a key that
\* is not recognized
C10_Witness ==
    /\ pc = "failed"
    /\ error = "No tokens found in transcript."
    /\ "words" \in DOMAIN transcript.fields
    /\ Len(transcript.fields["words"].items[1].tokens) > 0
    /\ file = NoFile

\* the final segments whose text is not empty
NonEmptySegments ==
    {i \in 1..Len(currentSegments) : segmentText(currentSegments[i]) # <<>>}

\* C11: when segmentation returns no non-empty segment, srt() throws "No
\* subtitle segments produced from transcript." as its next step, rendering
\* and writing are never reached with such a result, and the file is never
\* written in a run that failed.
C11_EmptyResultError ==
    /\ [](pc \in {"write", "done"} => NonEmptySegments # {})
    /\ [](file # NoFile => pc = "done" /\ NonEmptySegments # {})
    /\ [](pc = "failed" => file = NoFile /\ entries = <<>>)
    /\ [][pc = "render" /\ NonEmptySegments = {}
              => /\ pc' = "failed"
                 /\ error' = "No subtitle segments produced from transcript."
                 /\ file' = NoFile]_vars

\* srt() has thrown for tokens whose texts are all white space
C11_Witness ==
    /\ pc = "failed"
    /\ error = "No subtitle segments produced from transcript."
    /\ Len(tokens) >= 2
    /\ \A i \in 1..Len(tokens) : Trim(tokens[i].text) = <<>>
    /\ file = NoFile

\* the text renderSegments wraps: the segment's text inside its ellipses
RenderedText(seg) ==
    (IF seg.prefix_ellipsis THEN <<Ellipsis>> ELSE <<>>)
        \o segmentText(seg)
        \o (IF seg.suffix_ellipsis THEN <<Ellipsis>> ELSE <<>>)

\* a text longer than max_cpl without white space or delimiter
IsLongRun(text, cfg) ==
    /\ Len(text) > cfg.max_cpl
    /\ \A i \in 1..Len(text) : text[i] \notin Whitespace \cup cfg.line_split_delimiters

\* C12: with max_lines = 2, a segment whose text is one run longer than
\* max_cpl without spaces is rendered as exactly the two lines made of its
\* first max_cpl characters and of its next max_cpl characters.
C12_HardCut ==
    (pc \in {"write", "done"} /\ config.max_lines = 2) =>
        \A i \in 1..Len(entries) :
            LET text == RenderedText(currentSegments[i])
            IN  IsLongRun(text, config) =>
                    entries[i].lines = <<Slice(text, 0, config.max_cpl),
                                         Slice(text, config.max_cpl, 2 * config.max_cpl)>>

\* C13: with max_lines >= 1, every rendered entry has at least one line and at
\* most max_lines lines.
C13_LineCount ==
    (pc \in {"write", "done"} /\ config.max_lines >= 1) =>
        \A i \in 1..Len(entries) :
            /\ Len(entries[i].lines) >= 1
            /\ Len(entries[i].lines) <= config.max_lines

\* an entry with max_lines lines that leaves part of its text out, and a
\* one-line entry beside it
C13_Witness ==
    /\ pc = "write"
    /\ config.max_lines = 2
    /\ \E i, j \in 1..Len(entries) :
           /\ Len(entries[i].lines) = 2
           /\ Len(entries[i].lines[1]) + Len(entries[i].lines[2])
                  < Len(RenderedText(currentSegments[i]))
           /\ Len(entries[j].lines) = 1

\* C14: once the tokens have been read, every token of the caller keeps the
\* fields and values it had when srt() was called.
C14_TokensUntouched ==
    pc \in {"build", "split", "merge", "render", "write", "done"} =>
        tokens = extractTokens(transcript)

\* the segments the split phase still has to look at
SplitWork == queue \o pending

RECURSIVE SplitMeasure(_)
\* what is left to do in the split phase: a segment of w words can be looked
\* at 2w - 1 times at most, itself and its descendants
SplitMeasure(segs) ==
    IF segs = <<>> THEN 0
    ELSE 2 * Len(Head(segs).tokens) - 1 + SplitMeasure(Tail(segs))

\* the lists of two or more words in a row taken from ws
Stretches(ws) ==
    {SubSeq(ws, a, b) : a \in 1..Len(ws), b \in 1..Len(ws)} \ {<<>>}

\* C15: findSplitIndex answers an index between 1 and n - 1 for n >= 2 words;
\* a split puts two non-empty children with all the words of the parent in
\* front of the queue; a segment that is not split is emitted, a one-word
\* segment always; every step of the split phase reduces the work left, and
\* the split phase ends.
C15_SplitTermination ==
    /\ [](\A ws \in Stretches(words) :
             Len(ws) >= 2 => findSplitIndex(ws) \in 1..(Len(ws) - 1))
    /\ [][pc = "split" =>
             LET work == SplitWork
                 current == Head(work)
                 n == Len(current.tokens)
             IN  /\ SplitMeasure(queue' \o pending') < SplitMeasure(work)
                 /\ IF mustSplit(current, config)
                    THEN /\ queue' \o pending' = SubSeq(queue', 1, 2) \o Tail(work)
                         /\ Len(queue'[1].tokens) \in 1..(n - 1)
                         /\ queue'[1].tokens \o queue'[2].tokens = current.tokens
                         /\ out' = out
                    ELSE /\ queue' \o pending' = Tail(work)
                         /\ out' = Append(out, current)
                 /\ n = 1 => out' = Append(out, current)]_vars
    /\ (pc = "split" ~> pc = "merge")

\* the split phase has ended after a split, and one of the segments emitted
\* is a single word over a budget
C15_Witness ==
    /\ pc = "merge"
    /\ Len(out) > Len(segments)
    /\ \E i \in 1..Len(out) : Len(out[i].tokens) = 1 /\ overBudget(out[i], config)

\* C16: a pass of the merge loop that makes a merge ends with strictly fewer
\* segments than it began with, a pass that makes none leaves the list as it
\* is and ends the loop, and the merge loop always ends.
C16_MergeConvergence ==
    /\ [][pc = "merge" =>
             /\ changed' => Len(currentSegments') < Len(currentSegments)
             /\ ~changed' => currentSegments' = currentSegments /\ pc' = "render"]_vars
    /\ (pc = "merge" ~> pc = "render")

\* the merge loop has ended after a pass that merged
C16_Witness ==
    /\ pc = "render"
    /\ ~changed
    /\ Len(currentSegments) >= 1
    /\ Len(currentSegments) < Len(out)

RECURSIVE SplitOn(_, _)
\* the pieces of a text between the occurrences of sep
SplitOn(text, sep) ==
    IF \A i \in 1..Len(text) : text[i] # sep THEN <<text>>
    ELSE LET at == Min({i \in 1..Len(text) : text[i] = sep})
         IN  <<SubSeq(text, 1, at - 1)>> \o SplitOn(SubSeq(text, at + 1, Len(text)), sep)

RECURSIVE BlockStart(_, _)
\* the number of lines of the file before the cue block of entry i
BlockStart(es, i) ==
    IF i = 1 THEN 0 ELSE BlockStart(es, i - 1) + Len(es[i - 1].lines) + 3

\* C17: the file is its lines, each followed by one newline; the lines are,
\* for each entry in order, the index, the range "start --> end", the text
\* lines and one empty line; the newline after the last block's empty line is
\* the last character of the file.
C17_SrtFraming ==
    pc = "done" =>
        LET fileLines == SplitOn(SubSeq(file, 1, Len(file) - 1), NL)
            n == Len(entries)
        IN  /\ Len(file) >= 1
            /\ file[Len(file)] = NL
            /\ Len(fileLines) = BlockStart(entries, n) + Len(entries[n].lines) + 3
            /\ \A i \in 1..n :
                   LET at == BlockStart(entries, i)
                       entry == entries[i]
                       k == Len(entry.lines)
                   IN  /\ fileLines[at + 1] = NumberToString(entry.index)
                       /\ fileLines[at + 2] =
                              formatTimestamp(entry.start_ms)
                                  \o <<" ", "-", "-", ">", " ">>
                                  \o formatTimestamp(entry.end_ms)
                       /\ \A j \in 1..k : fileLines[at + 2 + j] = entry.lines[j]
                       /\ fileLines[at + k + 3] = <<>>

\* a file of two cues, one of them with more than one text line
C17_Witness ==
    /\ pc = "done"
    /\ Len(entries) = 2
    /\ Len(entries[1].lines) >= 2
    /\ Len(entries[2].lines) = 1
    /\ file # NoFile

RECURSIVE ParseDigits(_)
\* the number a text of decimal digits writes, -1 for any other text
ParseDigits(text) ==
    IF text = <<>> THEN 0 - 1
    ELSE LET last == text[Len(text)]
             found == {d \in 1..10 : DecimalDigits[d] = last}
             front == IF Len(text) = 1 THEN 0
                      ELSE ParseDigits(SubSeq(text, 1, Len(text) - 1))
         IN  IF found = {} \/ front < 0 THEN 0 - 1
             ELSE 10 * front + (CHOOSE d \in found : TRUE) - 1

\* C18: the text formatTimestamp makes of a whole number ms is H:MM:SS,mmm
\* with two or more digits of hours, two of minutes (< 60), two of seconds
\* (< 60) and three of milliseconds (< 1000); the four numbers add up to ms
\* when ms >= 0, and the text is 00:00:00,000 when ms < 0.
C18_TimestampFormat ==
    stamp # <<>> =>
        LET n == Len(stamp)
            hours == ParseDigits(SubSeq(stamp, 1, n - 10))
            minutes == ParseDigits(SubSeq(stamp, n - 8, n - 7))
            seconds == ParseDigits(SubSeq(stamp, n - 5, n - 4))
            millis == ParseDigits(SubSeq(stamp, n - 2, n))
        IN  /\ n >= 12
            /\ stamp[n - 9] = ":" /\ stamp[n - 6] = ":" /\ stamp[n - 3] = ","
            /\ hours >= 0
            /\ minutes \in 0..59
            /\ seconds \in 0..59
            /\ millis \in 0..999
            /\ inputMs >= 0 =>
                   hours * 3600000 + minutes * 60000 + seconds * 1000 + millis = inputMs
            /\ inputMs < 0 =>
                   stamp = <<"0", "0", ":", "0", "0", ":", "0", "0", ",", "0", "0", "0">>

\* a time of a hundred hours or more has been formatted: three digits of hours
C18_Witness ==
    /\ stamp # <<>>
    /\ inputMs >= 360000000
    /\ Len(stamp) = 13

\* C19: renderSegments returns one entry per segment, in the order of the
\* segments (entry i carries the times of segment i), numbered 1, 2, ..., n.
C19_CueNumbering ==
    pc \in {"write", "done"} =>
        /\ Len(entries) = Len(currentSegments)
        /\ \A i \in 1..Len(entries) :
               /\ entries[i].index = i
               /\ entries[i].start_ms = currentSegments[i].start
               /\ entries[i].end_ms = currentSegments[i].end

\* two segments at different times have been rendered
C19_Witness ==
    /\ pc = "write"
    /\ Len(entries) = 2
    /\ entries[2].index = 2
    /\ currentSegments[1].start # currentSegments[2].start

\* the positions in calls of the calls of an operation
CallsOf(ops) == {i \in 1..Len(calls) : calls[i].op \in ops}

Deletes == {"deleteTranscription", "deleteFile"}

\* C20: with keepRemote false, when transcribeAudio settles after entering
\* its try block, a deleteTranscription has been called for the id a
\* createTranscription answered and a deleteFile for the id an uploadFile
\* answered, the transcription's delete before the file's; and at no time
\* does an upload, create, wait or fetch follow a delete.
C20_RemoteCleanup ==
    ~options.keepRemote =>
        /\ \A i \in CallsOf(Deletes) :
               \A j \in CallsOf({"uploadFile", "createTranscription",
                                 "waitForCompletion", "fetchTranscript"}) : j < i
        /\ \A i \in CallsOf({"deleteFile"}) :
               \A j \in CallsOf({"deleteTranscription"}) : j < i
        /\ promise # "pending" =>
               /\ \A j \in CallsOf({"createTranscription"}) :
                      calls[j].ok =>
                          \E i \in CallsOf({"deleteTranscription"}) :
                              calls[i].arg = transcriptionId
               /\ \A j \in CallsOf({"uploadFile"}) :
                      calls[j].ok =>
                          \E i \in CallsOf({"deleteFile"}) : calls[i].arg = fileId
               /\ Cardinality(CallsOf({"deleteTranscription"})) <= 1
               /\ Cardinality(CallsOf({"deleteFile"})) <= 1

\* the call was rejected because waitForCompletion threw, after both
\* resources had been deleted, the first delete failing
C20_Witness ==
    /\ ~options.keepRemote
    /\ promise = "rejected"
    /\ thrown = "waitForCompletion failed"
    /\ Len(calls) = 5
    /\ calls[4].op = "deleteTranscription" /\ ~calls[4].ok
    /\ calls[5].op = "deleteFile"

\* C21: with keepRemote true, deleteTranscription and deleteFile are never
\* called, whether the call resolves or is rejected.
C21_KeepRemote ==
    options.keepRemote => CallsOf(Deletes) = {}

\* with keepRemote true the call was rejected by fetchTranscript after an
\* upload and a create that answered, and nothing was deleted
C21_Witness ==
    /\ options.keepRemote
    /\ promise = "rejected"
    /\ thrown = "fetchTranscript failed"
    /\ fileId # NoId
    /\ transcriptionId # NoId
    /\ CallsOf(Deletes) = {}

\* neither audioPath nor audioUrl is given
NoSource == options.audioPath = "undefined" /\ options.audioUrl = "undefined"

\* C22: called with neither audioPath nor audioUrl, transcribeAudio is
\* rejected with "Specify either audioPath or audioUrl." as its first step:
\* ensureClient is never reached, no client is made and no call is made on a
\* client.
C22_NoSourceRejected ==
    /\ [](NoSource =>
             /\ tpc \in {"start", "settled"}
             /\ calls = <<>>
             /\ ~ownsClient
             /\ tpc = "settled" =>
                    /\ promise = "rejected"
                    /\ thrown = "Specify either audioPath or audioUrl.")
    /\ [][NoSource /\ tpc = "start" => tpc' = "settled" /\ promise' = "rejected"]_vars

\* the call without a source has been rejected, though a client was given
C22_Witness ==
    /\ NoSource
    /\ options.client
    /\ tpc = "settled"
    /\ promise = "rejected"
    /\ calls = <<>>

\* no word of the segment but the last ends, once trimmed, with a
\* sentence-ending mark
SentenceInside(seg) ==
    \E k \in 1..(Len(seg.tokens) - 1) : endsWithSentenceBreak(seg.tokens[k].text)

\* C23: with segment_on_sentence, no segment holds a word ending with a
\* sentence-ending mark before its last word: not among the candidate
\* segments, not during the split phase, not after any pass of the merge
\* loop, not in the segments returned.
C23_SentencePreserved ==
    config.segment_on_sentence =>
        \A segs \in {segments, queue, pending, out, currentSegments} :
            \A i \in 1..Len(segs) : ~SentenceInside(segs[i])

\* a short segment that ends a sentence has been returned unmerged, beside a
\* segment made by a merge, though joining it with the next segment would
\* have fitted max_dur_ms
C23_Witness ==
    /\ pc = "render"
    /\ config.segment_on_sentence
    /\ \E i \in 1..(Len(currentSegments) - 1) :
           LET a == currentSegments[i]
               b == currentSegments[i + 1]
           IN  /\ a.sentence_break
               /\ a.end - a.start < config.min_dur_ms
               /\ b.end - a.start <= config.max_dur_ms
               /\ endsWithSentenceBreak(a.tokens[Len(a.tokens)].text)

RECURSIVE TakenAsFirst(_, _, _)
\* the positions in segs, counted from at, that a pass of the merge loop
\* visits with its index i: every segment but the second of a merged pair
TakenAsFirst(segs, cfg, at) ==
    IF segs = <<>> THEN {}
    ELSE IF Len(segs) > 1 /\ mergeable(segs[1], segs[2], cfg)
         THEN {at} \cup TakenAsFirst(SubSeq(segs, 3, Len(segs)), cfg, at + 2)
         ELSE {at} \cup TakenAsFirst(Tail(segs), cfg, at + 1)

BuildStateAfter(k) ==
    BuildScan(BuildStart, SubSeq(words, 1, k), config.gap_ms, config.split_on_speaker,
              config.segment_on_sentence)

\* word k of the words was put into the segment that was open before it,
\* whether that segment is still open or was closed after it
JoinedOpenSegment(k) ==
    LET before == BuildStateAfter(k - 1)
        after == BuildStateAfter(k)
        grown == Append(before.current, words[k])
    IN  \/ after.current = grown
        \/ /\ Len(after.segments) = Len(before.segments) + 1
           /\ after.segments[Len(after.segments)].tokens = grown

\* the boundary between two words is safe: the second begins with a space,
\* or the first ends with white space, a sentence-ending mark or a
\* minor-break mark
SafeBetween(prev, next) ==
    \/ StartsWithSpace(next.text)
    \/ prev.text # <<>> /\ LastChar(prev.text) \in
           Whitespace \cup SENTENCE_ENDERS \cup MINOR_BREAKERS

\* C25: a word that finds a segment open closes it before being appended
\* exactly when gap_ms > 0, the word starts more than gap_ms after the end of
\* the word before it, and the boundary between the two is safe; otherwise
\* it joins the open segment.
C25_GapRule ==
    pc \in {"split", "render"} =>
        \A k \in 2..Len(words) :
            BuildStateAfter(k - 1).current # <<>> =>
                (~JoinedOpenSegment(k) <=>
                    /\ config.gap_ms > 0
                    /\ words[k].start_ms - words[k - 1].end_ms > config.gap_ms
                    /\ SafeBetween(words[k - 1], words[k]))

\* the trimmed text of a word is exactly one sentence-ending mark
IsSentenceMark(w) ==
    LET t == Trim(w.text) IN Len(t) = 1 /\ t[1] \in SENTENCE_ENDERS

\* the trimmed text of a word is longer than a mark and ends with one
EndsWithSentenceMark(w) ==
    LET t == Trim(w.text) IN Len(t) > 1 /\ t[Len(t)] \in SENTENCE_ENDERS

\* word k was appended and the segment was closed after it, flagged as a
\* sentence break
ClosedAfterWord(k) ==
    LET before == BuildStateAfter(k - 1)
        after == BuildStateAfter(k)
        closed == after.segments[Len(after.segments)]
    IN  /\ after.current = <<>>
        /\ Len(after.segments) > Len(before.segments)
        /\ closed.tokens[Len(closed.tokens)] = words[k]
        /\ closed.sentence_break

\* word k was appended and the segment is still open after it
OpenAfterWord(k) ==
    LET after == BuildStateAfter(k)
    IN  /\ after.current # <<>>
        /\ after.current[Len(after.current)] = words[k]
        /\ Len(after.segments) <= Len(BuildStateAfter(k - 1).segments) + 1

\* C26: a word that is exactly one sentence-ending mark always closes the
\* segment after being appended; a word that merely ends with such a mark
\* closes it exactly when segment_on_sentence is set; the closed segment has
\* that word as its last word and sentence_break = TRUE, and every segment
\* closed otherwise (gap, speaker, end of input) has sentence_break = FALSE.
C26_SentenceRule ==
    pc = "split" =>
        /\ \A k \in 1..Len(words) :
              /\ IsSentenceMark(words[k]) => ClosedAfterWord(k)
              /\ EndsWithSentenceMark(words[k]) =>
                    IF config.segment_on_sentence THEN ClosedAfterWord(k)
                    ELSE OpenAfterWord(k)
              /\ ~IsSentenceMark(words[k]) /\ ~EndsWithSentenceMark(words[k]) =>
                    OpenAfterWord(k)
        /\ \A i \in 1..Len(segments) :
              LET last == segments[i].tokens[Len(segments[i].tokens)]
              IN  segments[i].sentence_break <=>
                      \/ IsSentenceMark(last)
                      \/ config.segment_on_sentence /\ EndsWithSentenceMark(last)

\* a lone mark closed a segment without segment_on_sentence, a word ending
\* with a mark closed one with it, and a segment was closed unflagged
C26_Witness ==
    /\ pc = "split"
    /\ \E k \in 1..Len(words) :
          \/ ~config.segment_on_sentence /\ IsSentenceMark(words[k])
               /\ ClosedAfterWord(k) /\ k > 1 /\ OpenAfterWord(k - 1)
          \/ config.segment_on_sentence /\ EndsWithSentenceMark(words[k])
               /\ ClosedAfterWord(k)
    /\ \E i \in 1..Len(segments) : ~segments[i].sentence_break

\* the number of words in the first j segments of a list
WordsThrough(segs, j) == Len(WordsOf(SubSeq(segs, 1, j)))

\* pieces j and j + 1 of the split phase's output are pieces of the same
\* candidate segment: the cut between them is not a boundary of buildSegments
CutInsideCandidate(j) ==
    \A i \in 1..Len(segments) : WordsThrough(segments, i) # WordsThrough(out, j)

\* C27: after the split phase, with ellipses enabled, of any two consecutive
\* pieces of the same candidate segment the earlier carries suffix_ellipsis
\* and the later carries prefix_ellipsis; with ellipses disabled no piece
\* carries either flag.
C27_EllipsisCuts ==
    pc = "merge" =>
        IF config.ellipses
        THEN \A j \in 1..(Len(out) - 1) :
                 CutInsideCandidate(j) =>
                     out[j].suffix_ellipsis /\ out[j + 1].prefix_ellipsis
        ELSE \A j \in 1..Len(out) :
                 ~out[j].prefix_ellipsis /\ ~out[j].suffix_ellipsis

\* C28: the first line of the entry of a segment flagged prefix_ellipsis
\* begins with the ellipsis character and the last line of the entry of a
\* segment flagged suffix_ellipsis ends with it, whichever policy wrapped the
\* text.
C28_EllipsisRendered ==
    pc = "write" =>
        \A i \in 1..Len(currentSegments) :
            LET lines == entries[i].lines
                last == lines[Len(lines)]
            IN  /\ currentSegments[i].prefix_ellipsis =>
                      /\ lines # <<>>
                      /\ lines[1] # <<>>
                      /\ lines[1][1] = Ellipsis
                /\ currentSegments[i].suffix_ellipsis =>
                      /\ lines # <<>>
                      /\ last # <<>>
                      /\ last[Len(last)] = Ellipsis

\* the characters of a text that are not white space
NonSpace(text) == SelectSeq(text, LAMBDA c : c \notin Whitespace)

\* what wrapWithPreferredDelimiters returns for segment i of the rendered list
PackedLines(i) ==
    wrapWithPreferredDelimiters(Trim(RenderedText(currentSegments[i])),
                                config.line_split_delimiters, config.max_cpl,
                                config.max_lines)

\* the chunks that f sends to line l, joined by single spaces
PackedLine(chunks, f, l) ==
    LET group == {k \in 1..Len(chunks) : f[k] = l}
    IN  JoinWith(SubSeq(chunks, Min(group), Max(group)), " ")

\* the ways of dealing the chunks, in order, onto n lines none of them empty
Dealings(chunks, n) ==
    {f \in [1..Len(chunks) -> 1..n] :
        /\ \A l \in 1..n : \E k \in 1..Len(chunks) : f[k] = l
        /\ \A k \in 1..(Len(chunks) - 1) : f[k] <= f[k + 1]}

\* the lines are the chunks, each once and in order, joined by single spaces
IsPacking(chunks, lines) ==
    \E f \in Dealings(chunks, Len(lines)) :
        \A l \in 1..Len(lines) : lines[l] = PackedLine(chunks, f, l)

\* the chunks can be packed onto 2..max_lines lines of at most max_cpl
PackingExists(chunks, cfg) ==
    \E n \in 2..cfg.max_lines :
        \E f \in Dealings(chunks, n) :
            \A l \in 1..n : Len(PackedLine(chunks, f, l)) <= cfg.max_cpl

\* C29: when wrapWithPreferredDelimiters returns lines, max_lines > 1 and
\* delimiters are configured, there are between 2 and max_lines lines, each
\* non-empty and at most max_cpl long, they are the chunks of the text each
\* once and in order joined by single spaces, and no character of the text
\* is dropped; it returns nothing only when no such packing exists.
C29_DelimiterPacking ==
    pc = "write" =>
        \A i \in 1..Len(currentSegments) :
            LET text == Trim(RenderedText(currentSegments[i]))
                chunks == splitTextByDelimiters(text, config.line_split_delimiters)
                lines == PackedLines(i)
            IN  IF lines # NullLines
                THEN /\ config.max_lines > 1
                     /\ config.line_split_delimiters # {}
                     /\ Len(lines) >= 2
                     /\ Len(lines) <= config.max_lines
                     /\ \A l \in 1..Len(lines) :
                            lines[l] # <<>> /\ Len(lines[l]) <= config.max_cpl
                     /\ IsPacking(chunks, lines)
                     /\ NonSpace(Flatten(lines)) = NonSpace(text)
                     /\ entries[i].lines = lines
                ELSE ~PackingExists(chunks, config)

\* an entry whose lines come from the packing, one of them made of two chunks
C29_Witness ==
    /\ pc = "write"
    /\ \E i \in 1..Len(currentSegments) :
          /\ PackedLines(i) # NullLines
          /\ entries[i].lines = PackedLines(i)
          /\ Len(PackedLines(i)) <
                 Len(splitTextByDelimiters(Trim(RenderedText(currentSegments[i])),
                                           config.line_split_delimiters))

\* message k carries error_code and no finished message was processed before
\* it (no message is processed after the close event)
ErrorBeforeFinishedIn(received, k) ==
    /\ received[k].error_code # NoErrorCode
    /\ \A j \in 1..(k - 1) :
           ~(received[j].finished /\ received[j].error_code = NoErrorCode)

ErrorBeforeFinished(k) == ErrorBeforeFinishedIn(responses, k)

\* C30 as stated: a session in which a message carrying error_code is
\* processed before any finished message or close event is rejected with the
\* error of that message.
C30_RejectedWithThatError ==
    \A k \in 1..Len(responses) :
        ErrorBeforeFinished(k) =>
            /\ session.state = "rejected"
            /\ session.value = SessionError(responses[k].error_code)

\* C30, amended: such a session is rejected and stays rejected whatever
\* event follows, never resolved; it is rejected with the error of that
\* message when the promise was still pending as the message was processed,
\* and otherwise with what rejected it before: the failure of the audio task,
\* the socket's error, or an earlier error message.
C30_SessionOutcome ==
    /\ [](\A k \in 1..Len(responses) :
            ErrorBeforeFinished(k) =>
                /\ session.state = "rejected"
                /\ session.value \in
                       {StreamError, SocketError}
                           \cup {SessionError(responses[j].error_code) :
                                    j \in {i \in 1..k : ErrorBeforeFinished(i)}})
    /\ [][(/\ Len(responses') = Len(responses) + 1
           /\ ErrorBeforeFinishedIn(responses', Len(responses'))
           /\ session.state = "pending")
              => session' = [state |-> "rejected",
                             value |-> SessionError(
                                 responses'[Len(responses')].error_code)]]_vars
    /\ [][session.state # "pending" => session' = session]_vars

\* an error message arrived first, a finished message after it, and the
\* socket has closed: the session is rejected with the error of the message
C30_Witness ==
    /\ readyState = "closed"
    /\ Len(responses) >= 2
    /\ ErrorBeforeFinished(1)
    /\ responses[2].finished /\ responses[2].error_code = NoErrorCode
    /\ session = [state |-> "rejected",
                  value |-> SessionError(responses[1].error_code)]

====
